---- MODULE Spec2Model ----
(***************************************************************************)
(* State-machine model of the STARS FFI boundary (stars_ffi.cpp), in its   *)
(* two variants:                                                           *)
(*   "native" : src/backend/native/ffi/src/stars_ffi.cpp                   *)
(*   "crate"  : src/backend/crates/stars-core-native/ffi/src/stars_ffi.cpp *)
(* The scheduling engine, the prescheduler, the JSON codec and the file    *)
(* loader are collaborators: each call into them returns normally or       *)
(* raises a failure that is derived from std::exception ("std") or is not  *)
(* ("other").                                                              *)
(***************************************************************************)
EXTENDS Integers, Sequences, FiniteSets, TLC

\* ---------------------------------------------------------------- bounds
\* Elements of a scheduling-blocks array.
MaxElems == 1

\* ------------------------------------------------------------- constants
Variants == {"native", "crate"}
Threads == {"t1", "t2"}
Families == {"ctx", "blk", "pp", "sch"}
\* The caller keeps one handle of each family (Context, BlockCollection,
\* PossiblePeriods, Schedule) at a time, as the pipeline calls do.
Slots == {1}
\* The null handle; a non-null handle is the slot its object lives in.
NullHandle == 0
\* A null char* (error_message of a success, stars_get_last_error with no error).
NullStr == "NULL"
\* The text of a caught exception, e.what(); collaborators' exceptions carry text.
What == "e.what()"
\* How a call into a collaborator ends.
Throws == {"none", "std", "other"}
\* The last-error slot as the running call found it.
AtEntry == "<g_last_error at entry>"
\* The pseudo code of a call that no StarsResult left: an exception crossed
\* the boundary.
Escaped == "ESCAPED"
ErrorCodes ==
    {"OK", "NULL_POINTER", "INVALID_JSON", "SERIALIZATION", "DESERIALIZATION",
     "INVALID_HANDLE", "SCHEDULING_FAILED", "PRESCHEDULER_FAILED", "IO", "UNKNOWN"}

VARIABLES
    variant,    \* which of the two wrappers is linked in
    ctx,        \* Context objects, by slot
    blk,        \* BlockCollection objects, by slot
    pp,         \* PossiblePeriods objects, by slot
    sch,        \* Schedule objects, by slot
    lastError,  \* g_last_error of each thread
    ret,        \* the call that returned last
    crashed,    \* the process has aborted
    running,    \* the call each thread is inside, if any
    probe       \* an operation applied to one drawn input, and its results

vars == <<variant, ctx, blk, pp, sch, lastError, ret, crashed, running, probe>>
heap == <<ctx, blk, pp, sch>>

\* ------------------------------------------------------------- objects
NoCtx == [st |-> "unalloc", instr |-> FALSE, period |-> FALSE, cached |-> FALSE]
NoBlk == [st |-> "unalloc", n |-> 0, annotated |-> FALSE]
NoPP == [st |-> "unalloc", computed |-> FALSE, n |-> 0]
NoSch == [st |-> "unalloc", has |-> FALSE, units |-> 0, unsched |-> 0, total |-> 0,
          fit |-> 0, ofCtx |-> 0, ofBlk |-> 0, ownsBlocks |-> FALSE,
          ownsInstr |-> FALSE]

\* operator new: the lowest unallocated slot, 0 when the bound is reached.
FreeSlot(f) ==
    IF \E i \in Slots : f[i].st = "unalloc"
    THEN CHOOSE i \in Slots : f[i].st = "unalloc" /\ \A j \in Slots : j < i => f[j].st # "unalloc"
    ELSE 0

\* What a caller can pass as a handle to a consuming operation: null or a
\* handle it obtained and has not destroyed.
LiveArgs(f) == {NullHandle} \cup {i \in Slots : f[i].st = "live"}
\* What a caller can pass to a destroy operation: also a handle it destroyed.
DestroyArgs(f) == {NullHandle} \cup {i \in Slots : f[i].st \in {"live", "freed", "freed2"}}

\* ------------------------------------------------------ the error channel
\* g_last_error = msg
set_error(e, msg) == msg

\* g_last_error.clear()
clear_error(e) == ""

\* return g_last_error.empty() ? nullptr : g_last_error.c_str()
stars_get_last_error(t) == IF lastError[t] = "" THEN NullStr ELSE lastError[t]

\* Entry with the clear left out.
Entry_NoClear(v, e) == e

\* The crate variant starts every fallible operation with
\* clear_error_internal(); the native variant does not.
Entry(v, e) == IF v = "crate" THEN clear_error(e) ELSE e

\* A result: code, error_message, and the last-error slot it leaves.
make_ok(v, e) == [code |-> "OK", msg |-> NullStr, err |-> e]

\* make_error with the message returned and not mirrored into the slot.
make_error_NoMirror(v, e, code, msg) == [code |-> code, msg |-> msg, err |-> e]

\* make_error returning no message.
make_error_NoMessage(v, e, code, msg) ==
    [code |-> code, msg |-> NullStr, err |-> set_error(e, msg)]

\* native make_error: set_error(msg); {code, duplicate_string(msg)}
\* crate make_result: message NULL and slot untouched when msg is empty
make_error(v, e, code, msg) ==
    IF v = "native"
    THEN [code |-> code, msg |-> msg, err |-> set_error(e, msg)]
    ELSE [code |-> code,
          msg |-> IF msg = "" THEN NullStr ELSE msg,
          err |-> IF msg = "" THEN e ELSE set_error(e, msg)]

\* An exception that no handler of the operation catches: no result.
escape(e) == [code |-> Escaped, msg |-> NullStr, err |-> e]

\* --------------------------------------------------------- call outcomes
\* What an operation leaves besides its result: the value it wrote to its
\* output parameter (wrote = FALSE: nothing written), the collaborator calls
\* it made, the families of the objects it allocated and neither freed nor
\* handed out (leaked), and the families of the handles it obtained from
\* the operations it called and did not destroy (live).
NoVal == <<"none", 0, 0, 0, 0>>

Outcome(r, wrote, val, trace, leaked) ==
    [code |-> r.code, msg |-> r.msg, err |-> r.err, wrote |-> wrote, val |-> val,
     trace |-> trace, leaked |-> leaked, live |-> {}]

Fail(r, trace, leaked) == Outcome(r, FALSE, NoVal, trace, leaked)

\* ------------------------------------------------------- decoding inputs
\* A config text, by what the decoder does with it: its syntax, whether its
\* top-level value is an object, and for the instrument and executionPeriod
\* sections whether the section is absent, decodes ("ok"), or makes the
\* collaborator that decodes it (Instrument, TimeUTC, a typed JSON access)
\* raise. A period that is "partial" lacks begin or end.
CfgInputs ==
    {[syntax |-> "bad", top |-> "other", instrument |-> "absent", period |-> "absent"],
     [syntax |-> "ok", top |-> "other", instrument |-> "absent", period |-> "absent"]}
    \cup [syntax : {"ok"}, top : {"object"},
          instrument : {"absent", "ok", "std", "other"},
          period : {"absent", "partial", "ok", "std", "other"}]

\* The StarsContext a successful stars_context_create builds.
ContextBuilt(v, in) ==
    [st |-> "live",
     instr |-> IF v = "native" THEN TRUE ELSE in.instrument = "ok",
     period |-> in.period = "ok",
     cached |-> FALSE]

\* native stars_context_create: the StarsContext is allocated with new before
\* the parse; each explicit failure branch deletes it, the catch block does
\* not.
native_context_create(e0, cfgNull, outNull, in) ==
    LET v == "native" IN
    IF cfgNull \/ outNull
    THEN Fail(make_error(v, e0, "NULL_POINTER", "Null pointer argument"), <<>>, {})
    ELSE IF in.syntax = "bad"
    THEN Fail(make_error(v, e0, "INVALID_JSON", What), <<"parse">>, {"ctx"})
    ELSE IF in.top # "object" \/ in.instrument = "absent"
    THEN Fail(make_error(v, e0, "INVALID_JSON", "Missing 'instrument' in config"),
              <<"parse">>, {})
    ELSE IF in.instrument = "std"
    THEN Fail(make_error(v, e0, "INVALID_JSON", What), <<"parse", "Instrument">>, {"ctx"})
    ELSE IF in.instrument = "other"
    THEN Fail(escape(e0), <<"parse", "Instrument">>, {"ctx"})
    ELSE IF in.period = "absent"
    THEN Fail(make_error(v, e0, "INVALID_JSON", "Missing 'executionPeriod' in config"),
              <<"parse", "Instrument">>, {})
    ELSE IF in.period = "partial"
    THEN Fail(make_error(v, e0, "INVALID_JSON",
                         "Invalid executionPeriod: missing begin or end"),
              <<"parse", "Instrument">>, {})
    ELSE IF in.period = "std"
    THEN Fail(make_error(v, e0, "INVALID_JSON", What),
              <<"parse", "Instrument", "TimeUTC">>, {"ctx"})
    ELSE IF in.period = "other"
    THEN Fail(escape(e0), <<"parse", "Instrument", "TimeUTC">>, {"ctx"})
    ELSE Outcome(make_ok(v, e0), TRUE, <<"ctx", 0, 0, 0, 0>>,
                 <<"parse", "Instrument", "TimeUTC">>, {})

\* crate stars_context_create: the StarsContext is held by a unique_ptr until
\* it is released into *out_handle; absent sections are skipped; three catch
\* clauses (parse_error, std::exception, ...).
crate_context_create(e0, cfgNull, outNull, in) ==
    LET v == "crate"
        e == Entry(v, e0)
        tI == IF in.instrument = "absent" THEN <<"parse">> ELSE <<"parse", "Instrument">>
        tP == IF in.period = "absent" THEN tI ELSE Append(tI, "TimeUTC")
    IN
    IF cfgNull \/ outNull
    THEN Fail(make_error(v, e, "NULL_POINTER", "Null pointer argument"), <<>>, {})
    ELSE IF in.syntax = "bad"
    THEN Fail(make_error(v, e, "INVALID_JSON", "JSON parse error: e.what()"), <<"parse">>, {})
    ELSE IF in.instrument = "std"
    THEN Fail(make_error(v, e, "DESERIALIZATION", "Failed to create context: e.what()"),
              tI, {})
    ELSE IF in.instrument = "other"
    THEN Fail(make_error(v, e, "UNKNOWN", "Unknown error creating context"), tI, {})
    ELSE IF in.period \in {"partial", "std"}
    THEN Fail(make_error(v, e, "DESERIALIZATION", "Failed to create context: e.what()"),
              tP, {})
    ELSE IF in.period = "other"
    THEN Fail(make_error(v, e, "UNKNOWN", "Unknown error creating context"), tP, {})
    ELSE Outcome(make_ok(v, e), TRUE, <<"ctx", 0, 0, 0, 0>>, tP, {})

stars_context_create(v, e0, cfgNull, outNull, in) ==
    IF v = "native" THEN native_context_create(e0, cfgNull, outNull, in)
    ELSE crate_context_create(e0, cfgNull, outNull, in)

\* A file path, by what opening and reading it does.
FileStates == {"missing", "readable"}

\* native stars_context_create_from_file: ifstream, then stars_context_create
\* on the content. crate: ScheduleJsonLoader reads and decodes the file; any
\* std::exception is reported as IO, anything else as UNKNOWN.
stars_context_create_from_file(v, e0, pathNull, outNull, file, in) ==
    IF v = "native"
    THEN IF pathNull \/ outNull
         THEN Fail(make_error(v, e0, "NULL_POINTER", "Null pointer argument"), <<>>, {})
         ELSE IF file = "missing"
         THEN Fail(make_error(v, e0, "IO", "Cannot open file: path"), <<"open">>, {})
         ELSE LET r == native_context_create(e0, FALSE, FALSE, in)
              IN  [r EXCEPT !.trace = <<"open">> \o r.trace]
    ELSE LET e == Entry(v, e0) IN
         IF pathNull \/ outNull
         THEN Fail(make_error(v, e, "NULL_POINTER", "Null pointer argument"), <<>>, {})
         ELSE IF file = "missing" \/ in.syntax = "bad" \/ in.top # "object"
                 \/ in.instrument \in {"absent", "std"}
                 \/ in.period \in {"absent", "partial", "std"}
         THEN Fail(make_error(v, e, "IO", "Failed to load file: e.what()"), <<"open">>, {})
         ELSE IF in.instrument = "other" \/ in.period = "other"
         THEN Fail(make_error(v, e, "UNKNOWN", "Unknown error loading file"), <<"open">>, {})
         ELSE Outcome(make_ok(v, e), TRUE, <<"ctx", 0, 0, 0, 0>>, <<"open">>, {})


\* An element of a scheduling-blocks array, by what decoding it does: "task"
\* carries a recognized discriminator, "unknown" an unrecognized one, "bad"
\* and "badother" a recognized one whose payload makes the decoder raise.
ElemKinds == {"task", "unknown", "bad", "badother"}

\* Elements outside the schema, given to the blocks round trip besides the
\* others: "twokeys" is an object with two keys that contain
\* "ObservationTask" (the block type name and a second one), "lookalike" an
\* object whose one key contains "ObservationTask" without being a block
\* type name (e.g. "NotAnObservationTask"); the payloads decode.
ProbeElemKinds == ElemKinds \cup {"twokeys", "lookalike"}

SeqsUpTo(S, n) == UNION {[1..k -> S] : k \in 0..n}

\* A blocks text: its syntax, the shape of its top-level value, the
\* schedulingBlocks field of a top-level object, and the elements of the
\* array (of the field's value, when that is no array).
BlkInputs ==
    {[syntax |-> "bad", shape |-> "scalar", field |-> "absent", elems |-> <<>>],
     [syntax |-> "ok", shape |-> "scalar", field |-> "absent", elems |-> <<>>],
     [syntax |-> "ok", shape |-> "object", field |-> "absent", elems |-> <<>>]}
    \cup [syntax : {"ok"}, shape : {"array"}, field : {"absent"},
          elems : SeqsUpTo(ElemKinds, MaxElems)]
    \cup [syntax : {"ok"}, shape : {"object"}, field : {"array", "notarray"},
          elems : SeqsUpTo(ElemKinds, MaxElems)]

RECURSIVE CountKind(_, _)
CountKind(elems, k) ==
    IF elems = <<>> THEN 0
    ELSE (IF Head(elems) = k THEN 1 ELSE 0) + CountKind(Tail(elems), k)

\* The first element whose decoding raises: "none", "std" or "other".
RECURSIVE FirstThrow(_)
FirstThrow(elems) ==
    IF elems = <<>> THEN "none"
    ELSE IF Head(elems) = "bad" THEN "std"
    ELSE IF Head(elems) = "badother" THEN "other"
    ELSE FirstThrow(Tail(elems))

\* Whether the decoding loop pushes a block for an element. native: one per
\* key that contains "ObservationTask". crate: the Deserializer creates the
\* block through its type registry and the loop pushes it `if (block)`; it
\* yields no block for a discriminator the registry does not know.
native_decodes(kind) == kind \in {"task", "twokeys", "lookalike"}

\* The keys of an element that the native loop takes a block from:
\* `for (auto& [key, value] : block_json.items())` pushes one per match.
native_matching_keys(kind) == IF kind = "twokeys" THEN 2 ELSE 1

\* One `deserializer >> block` and at most one push_back per element; a
\* name that is not in the registry yields no block.
crate_decodes(kind) == kind \in {"task", "twokeys"}

RECURSIVE Decoded(_, _)
Decoded(v, elems) ==
    IF elems = <<>> THEN 0
    ELSE (IF v = "native"
          THEN (IF native_decodes(Head(elems)) THEN native_matching_keys(Head(elems))
                ELSE 0)
          ELSE (IF crate_decodes(Head(elems)) THEN 1 ELSE 0))
         + Decoded(v, Tail(elems))

\* The blocks pushed by the decoding loop: one per element with a recognized
\* discriminator.
BlocksBuilt(v, in) == [st |-> "live", n |-> Decoded(v, in.elems), annotated |-> FALSE]

\* native stars_blocks_load_json: new StarsBlocksCollection before the parse;
\* contains("schedulingBlocks") is tried before is_array(); the two explicit
\* failure branches delete the collection, the catch block does not.
native_blocks_load_json(e0, jsonNull, outNull, in) ==
    LET v == "native" IN
    IF jsonNull \/ outNull
    THEN Fail(make_error(v, e0, "NULL_POINTER", "Null pointer argument"), <<>>, {})
    ELSE IF in.syntax = "bad"
    THEN Fail(make_error(v, e0, "INVALID_JSON", What), <<"parse">>, {"blk"})
    ELSE IF in.shape = "scalar" \/ (in.shape = "object" /\ in.field = "absent")
    THEN Fail(make_error(v, e0, "INVALID_JSON", "No scheduling blocks found in JSON"),
              <<"parse">>, {})
    ELSE IF in.shape = "object" /\ in.field = "notarray"
    THEN Fail(make_error(v, e0, "INVALID_JSON", "schedulingBlocks must be an array"),
              <<"parse">>, {})
    ELSE IF FirstThrow(in.elems) = "std"
    THEN Fail(make_error(v, e0, "INVALID_JSON", What), <<"parse", "decode">>, {"blk"})
    ELSE IF FirstThrow(in.elems) = "other"
    THEN Fail(escape(e0), <<"parse", "decode">>, {"blk"})
    ELSE Outcome(make_ok(v, e0), TRUE, <<"blk", 0, 0, 0, 0>>, <<"parse", "decode">>, {})

\* crate stars_blocks_load_json: parse, then a unique_ptr collection;
\* is_array() is tried before contains("schedulingBlocks"), and the field's
\* value is iterated whatever its type; two catch clauses (parse_error,
\* std::exception).
crate_blocks_load_json(e0, jsonNull, outNull, in) ==
    LET v == "crate"
        e == Entry(v, e0)
    IN
    IF jsonNull \/ outNull
    THEN Fail(make_error(v, e, "NULL_POINTER", "Null pointer argument"), <<>>, {})
    ELSE IF in.syntax = "bad"
    THEN Fail(make_error(v, e, "INVALID_JSON", "JSON parse error: e.what()"), <<"parse">>, {})
    ELSE IF in.shape = "scalar" \/ (in.shape = "object" /\ in.field = "absent")
    THEN Fail(make_error(v, e, "INVALID_JSON",
                         "Expected array or object with 'schedulingBlocks' key"),
              <<"parse">>, {})
    ELSE IF FirstThrow(in.elems) = "std"
    THEN Fail(make_error(v, e, "DESERIALIZATION", "Failed to load blocks: e.what()"),
              <<"parse", "decode">>, {})
    ELSE IF FirstThrow(in.elems) = "other"
    THEN Fail(escape(e), <<"parse", "decode">>, {})
    ELSE Outcome(make_ok(v, e), TRUE, <<"blk", 0, 0, 0, 0>>, <<"parse", "decode">>, {})

stars_blocks_load_json(v, e0, jsonNull, outNull, in) ==
    IF v = "native" THEN native_blocks_load_json(e0, jsonNull, outNull, in)
    ELSE crate_blocks_load_json(e0, jsonNull, outNull, in)

\* native stars_blocks_load_file: ifstream, then stars_blocks_load_json on the
\* content. crate: ScheduleJsonLoader::LoadBlocks; any std::exception is
\* reported as IO, and there is no catch-all.
stars_blocks_load_file(v, e0, pathNull, outNull, file, in) ==
    IF v = "native"
    THEN IF pathNull \/ outNull
         THEN Fail(make_error(v, e0, "NULL_POINTER", "Null pointer argument"), <<>>, {})
         ELSE IF file = "missing"
         THEN Fail(make_error(v, e0, "IO", "Cannot open file: path"), <<"open">>, {})
         ELSE LET r == native_blocks_load_json(e0, FALSE, FALSE, in)
              IN  [r EXCEPT !.trace = <<"open">> \o r.trace]
    ELSE LET e == Entry(v, e0) IN
         IF pathNull \/ outNull
         THEN Fail(make_error(v, e, "NULL_POINTER", "Null pointer argument"), <<>>, {})
         ELSE IF file = "missing" \/ in.syntax = "bad" \/ in.shape = "scalar"
                 \/ (in.shape = "object" /\ in.field # "array")
                 \/ FirstThrow(in.elems) = "std"
         THEN Fail(make_error(v, e, "IO", "Failed to load file: e.what()"), <<"open">>, {})
         ELSE IF FirstThrow(in.elems) = "other"
         THEN Fail(escape(e), <<"open">>, {})
         ELSE Outcome(make_ok(v, e), TRUE, <<"blk", 0, 0, 0, 0>>, <<"open">>, {})

\* ---------------------------------------------------------------- exports
\* Export with the text stored in *out before the statement that raises.
Export_WritesThenRaises(v, e0, hNull, outNull, x, val, prefix, call) ==
    LET e == Entry(v, e0) IN
    IF hNull \/ outNull
    THEN Fail(make_error(v, e, "NULL_POINTER", "Null pointer argument"), <<>>, {})
    ELSE IF x = "std"
    THEN Outcome(make_error(v, e, "SERIALIZATION", IF v = "native" THEN What ELSE prefix),
                 TRUE, val, <<call>>, {})
    ELSE IF x = "other"
    THEN Fail(escape(e), <<call>>, {})
    ELSE Outcome(make_ok(v, e), TRUE, val, <<call>>, {})

\* The body of an export between its null check and its return: it reads the
\* object through collaborator calls and writes the text; x is how those
\* calls end. Every export catches std::exception only and reports it as
\* SERIALIZATION; the crate variant prefixes the text.
Export(v, e0, hNull, outNull, x, val, prefix, call) ==
    LET e == Entry(v, e0) IN
    IF hNull \/ outNull
    THEN Fail(make_error(v, e, "NULL_POINTER", "Null pointer argument"), <<>>, {})
    ELSE IF x = "std"
    THEN Fail(make_error(v, e, "SERIALIZATION",
                         IF v = "native" THEN What ELSE prefix), <<call>>, {})
    ELSE IF x = "other"
    THEN Fail(escape(e), <<call>>, {})
    ELSE Outcome(make_ok(v, e), TRUE, val, <<call>>, {})

\* stars_blocks_count: no collaborator call, no try block.
stars_blocks_count(v, e0, hNull, outNull, n) ==
    LET e == Entry(v, e0) IN
    IF hNull \/ outNull
    THEN Fail(make_error(v, e, "NULL_POINTER", "Null pointer argument"), <<>>, {})
    ELSE Outcome(make_ok(v, e), TRUE, <<"count", n, 0, 0, 0>>, <<>>, {})

\* stars_blocks_get_at: the bounds check comes before the try block.
stars_blocks_get_at(v, e0, hNull, outNull, n, index, x) ==
    LET e == Entry(v, e0) IN
    IF hNull \/ outNull
    THEN Fail(make_error(v, e, "NULL_POINTER", "Null pointer argument"), <<>>, {})
    ELSE IF index >= n
    THEN Fail(make_error(v, e, "INVALID_HANDLE", "Index out of bounds"), <<>>, {})
    ELSE Export(v, e0, FALSE, FALSE, x, <<"block", index, 0, 0, 0>>,
                "Failed to serialize block: e.what()", "serialize")


\* ----------------------------------------------------------- prescheduler
\* What ComputePeriods leaves in the objects it is given. The native wrapper
\* discards its return value: the periods are written into the blocks and the
\* map is kept by the instrument. The crate wrapper takes the map it returns.
PreschedulerWritesInPlace(v) == v = "native"

\* The StarsPossiblePeriods a successful stars_compute_possible_periods
\* builds: a flag (native), the map and the block names (crate).
PeriodsBuilt(v, n) ==
    [st |-> "live", computed |-> v = "native", n |-> IF v = "native" THEN 0 ELSE n]

\* stars_compute_possible_periods with the instrument check placed before
\* the null check of the output parameter.
stars_compute_possible_periods_InstrumentFirst(v, e0, cNull, bNull, outNull, instr, x) ==
    LET e == Entry(v, e0) IN
    IF cNull \/ bNull
    THEN Fail(make_error(v, e, "NULL_POINTER", "Null pointer argument"), <<>>, {})
    ELSE IF v = "crate" /\ ~instr
    THEN Fail(make_error(v, e, "INVALID_HANDLE", "Context has no instrument configured"),
              <<>>, {})
    ELSE IF outNull
    THEN Fail(make_error(v, e, "NULL_POINTER", "Null pointer argument"), <<>>, {})
    ELSE IF x = "std"
    THEN Fail(make_error(v, e, "PRESCHEDULER_FAILED",
                         IF v = "native" THEN What ELSE "Prescheduler failed: e.what()"),
              <<"ComputePeriods">>, {})
    ELSE IF x = "other"
    THEN Fail(escape(e), <<"ComputePeriods">>, {})
    ELSE Outcome(make_ok(v, e), TRUE, <<"pp", 0, 0, 0, 0>>, <<"ComputePeriods">>, {})

\* stars_compute_possible_periods. The crate variant refuses a context
\* without an instrument; both catch std::exception only.
stars_compute_possible_periods(v, e0, cNull, bNull, outNull, instr, x) ==
    LET e == Entry(v, e0) IN
    IF cNull \/ bNull \/ outNull
    THEN Fail(make_error(v, e, "NULL_POINTER", "Null pointer argument"), <<>>, {})
    ELSE IF v = "crate" /\ ~instr
    THEN Fail(make_error(v, e, "INVALID_HANDLE", "Context has no instrument configured"),
              <<>>, {})
    ELSE IF x = "std"
    THEN Fail(make_error(v, e, "PRESCHEDULER_FAILED",
                         IF v = "native" THEN What ELSE "Prescheduler failed: e.what()"),
              <<"ComputePeriods">>, {})
    ELSE IF x = "other"
    THEN Fail(escape(e), <<"ComputePeriods">>, {})
    ELSE Outcome(make_ok(v, e), TRUE, <<"pp", 0, 0, 0, 0>>, <<"ComputePeriods">>, {})

\* ----------------------------------------------------------------- engine
\* StarsSchedulerType
STARS_SCHEDULER_ACCUMULATIVE == 0
STARS_SCHEDULER_HYBRID_ACCUMULATIVE == 1
Algorithms == {STARS_SCHEDULER_ACCUMULATIVE, STARS_SCHEDULER_HYBRID_ACCUMULATIVE, 2}

\* Fitness values an engine may report for a schedule.
EngineFits == {3, 8}

\* What Schedule() returns for n blocks: a schedule object with k units and
\* the other n - k blocks unscheduled, or no schedule object and every block
\* unscheduled.
EngineResults(n) ==
    [has : {TRUE}, units : 0..n, unsched : 0..n, fit : EngineFits]
    \cup {[has |-> FALSE, units |-> 0, unsched |-> n, fit |-> 0]}

EngineOutcomes(n) == {r \in EngineResults(n) : r.has => r.units + r.unsched = n}

\* Whether stars_run_scheduler runs the prescheduler itself.
\* native: !possible_periods || !possible_periods->computed; crate: only
\* when possible_periods is null.
ComputesInternally(v, ppNull, ppComputed) ==
    IF v = "native" THEN ppNull \/ ~ppComputed ELSE ppNull

\* The engine stars_run_scheduler constructs for params.algorithm: "none"
\* is the crate variant's default branch.
EngineFor(v, alg) ==
    IF alg = STARS_SCHEDULER_HYBRID_ACCUMULATIVE THEN "Hybrid.Schedule"
    ELSE IF v = "native" \/ alg = STARS_SCHEDULER_ACCUMULATIVE THEN "Accumulative.Schedule"
    ELSE "none"

\* A StarsSchedule that refers to the collection's blocks without owning them.
ScheduleBorrowsBlocks(v) == FALSE

\* The members of StarsSchedule that keep other objects alive: the schedule
\* and the unscheduled set hold shared pointers to the blocks (both
\* variants); the crate variant also copies the blocks list and the
\* instrument pointer.
ScheduleSharesBlocks(v) == TRUE

ScheduleSharesInstrument(v) == v = "crate"

\* The fitness stars_run_scheduler stores. native: the scheduling rate
\* (blocks - unscheduled) / blocks, here in percent, 0 for no blocks.
\* crate: schedule ? schedule->ComputeFitness() : 0.0.
StoredFitness(v, n, eng) ==
    IF v = "native"
    THEN IF n > 0 THEN ((n - eng.unsched) * 100) \div n ELSE 0
    ELSE IF eng.has THEN eng.fit ELSE 0

\* The StarsSchedule a successful stars_run_scheduler builds from context c
\* and collection b of n blocks.
ScheduleBuilt(v, c, b, n, eng) ==
    [st |-> "live", has |-> eng.has, units |-> eng.units, unsched |-> eng.unsched,
     total |-> n, fit |-> StoredFitness(v, n, eng), ofCtx |-> c, ofBlk |-> b,
     ownsBlocks |-> ScheduleSharesBlocks(v), ownsInstr |-> ScheduleSharesInstrument(v)]

\* stars_run_scheduler. x1 is how the internal ComputePeriods ends, x2 how
\* the engine's Schedule ends.
stars_run_scheduler(v, e0, cNull, bNull, outNull, instr, ppNull, ppComputed, alg, x1, x2) ==
    LET e == Entry(v, e0)
        pre == IF ComputesInternally(v, ppNull, ppComputed) THEN <<"ComputePeriods">> ELSE <<>>
        failed == IF v = "native" THEN What ELSE "Scheduling failed: e.what()"
    IN
    IF cNull \/ bNull \/ outNull
    THEN Fail(make_error(v, e, "NULL_POINTER", "Null pointer argument"), <<>>, {})
    ELSE IF v = "crate" /\ ~instr
    THEN Fail(make_error(v, e, "INVALID_HANDLE", "Context has no instrument configured"),
              <<>>, {})
    ELSE IF EngineFor(v, alg) = "none"
    THEN Fail(make_error(v, e, "SCHEDULING_FAILED", "Unknown algorithm type"), <<>>, {})
    ELSE IF pre # <<>> /\ x1 = "std"
    THEN Fail(make_error(v, e, "SCHEDULING_FAILED", failed), pre, {})
    ELSE IF pre # <<>> /\ x1 = "other"
    THEN Fail(escape(e), pre, {})
    ELSE IF x2 = "std"
    THEN Fail(make_error(v, e, "SCHEDULING_FAILED", failed),
              Append(pre, EngineFor(v, alg)), {})
    ELSE IF x2 = "other"
    THEN Fail(escape(e), Append(pre, EngineFor(v, alg)), {})
    ELSE Outcome(make_ok(v, e), TRUE, <<"sch", 0, 0, 0, 0>>,
                 Append(pre, EngineFor(v, alg)), {})

\* An export that lists the unscheduled blocks only when there is a schedule
\* object.
ScheduleJson_SkipsUnscheduled(v, s) ==
    IF s.has THEN <<"schedule", s.units, s.unsched, s.fit, 0>>
    ELSE <<"schedule", 0, 0, 0, 0>>

\* The text stars_schedule_to_json writes for schedule object s.
\* native: scheduled_count is the size of the units array it built;
\* crate: schedule->size(), with fitness 0 when there is no schedule object.
ScheduleJson(v, s) ==
    IF v = "native"
    THEN <<"schedule", IF s.has THEN s.units ELSE 0, s.unsched, s.fit, 0>>
    ELSE IF s.has THEN <<"schedule", s.units, s.unsched, s.fit, 0>>
    ELSE <<"schedule", 0, s.unsched, 0, 0>>

\* size_t arithmetic wraps modulo SizeModulus (2^64 in the build; a smaller
\* power of two here, far above every count of the model).
SizeModulus == 2^16

\* stars_schedule_get_stats with the operands of the subtraction exchanged.
ScheduleStats_Exchanged(v, s) ==
    <<"stats", (s.unsched - s.total) % SizeModulus, s.unsched, s.total, s.fit>>

\* The text stars_schedule_get_stats writes: scheduled_count,
\* unscheduled_count, total_blocks, fitness (scheduling_rate is their
\* quotient). native: scheduled = total_blocks - unscheduled.size();
\* crate: total = scheduled + unscheduled.
ScheduleStats(v, s) ==
    IF v = "native"
    THEN <<"stats", (s.total - s.unsched) % SizeModulus, s.unsched, s.total, s.fit>>
    ELSE LET k == IF s.has THEN s.units ELSE 0
         IN  <<"stats", k, s.unsched, k + s.unsched, s.fit>>

\* scheduling_rate of stars_schedule_get_stats, in percent:
\* total > 0 ? scheduled / total : 0.0.
SchedulingRate(v, s) ==
    LET st == ScheduleStats(v, s)
    IN  IF st[4] > 0 THEN (st[2] * 100) \div st[4] ELSE 0


\* --------------------------------------------------------------- pipeline
\* The handles a pipeline call holds when a stage starts, by family.
PipelineCreated(v, stage) ==
    CASE stage \in {"stars_context_create", "stars_context_create_from_file"} -> {}
      [] stage \in {"stars_blocks_load_json", "stars_blocks_load_file"} -> {"ctx"}
      [] stage = "stars_compute_possible_periods" -> {"ctx", "blk"}
      [] stage = "stars_run_scheduler" ->
            IF v = "native" THEN {"ctx", "blk", "pp"} ELSE {"ctx", "blk"}
      [] stage = "stars_schedule_to_json" ->
            IF v = "native" THEN {"ctx", "blk", "pp", "sch"} ELSE {"ctx", "blk", "sch"}

\* The handles the pipeline destroys on the branch taken when a stage
\* returns a failure (for the export stage: the cleanup that follows it
\* whatever it returned).
PipelineCleanup(v, stage) ==
    CASE stage \in {"stars_context_create", "stars_context_create_from_file"} -> {}
      [] stage \in {"stars_blocks_load_json", "stars_blocks_load_file"} -> {"ctx"}
      [] stage = "stars_compute_possible_periods" -> {"blk", "ctx"}
      [] stage = "stars_run_scheduler" ->
            IF v = "native" THEN {"pp", "blk", "ctx"} ELSE {"ctx", "blk"}
      [] stage = "stars_schedule_to_json" ->
            IF v = "native" THEN {"sch", "pp", "blk", "ctx"} ELSE {"sch", "blk", "ctx"}

\* The pipeline ends with stage's result r: the cleanup of that branch runs
\* when r was returned, and none runs when an exception left the stage.
StageEnd(v, stage, acc, r) ==
    [r EXCEPT !.trace = acc \o <<stage>> \o r.trace,
              !.live = IF r.code = Escaped THEN PipelineCreated(v, stage)
                       ELSE PipelineCreated(v, stage) \ PipelineCleanup(v, stage)]

\* The choices of a pipeline run: the text as the context decoder (cin) and
\* the blocks decoder (bin) see it, how ComputePeriods (x1), the engine (x2)
\* and the export (x3) end, the algorithm and what the engine returns.
\* The stages from the scheduler on, shared by both call shapes.
PipelineTail(v, e, acc, ch) ==
    LET n == CountKind(ch.bin.elems, "task")
        instr == ContextBuilt(v, ch.cin).instr
        r3 == stars_compute_possible_periods(v, e, FALSE, FALSE, FALSE, instr, ch.x1)
        viaPP == v = "native"
        e3 == IF viaPP THEN r3.err ELSE e
        acc3 == IF viaPP THEN acc \o <<"stars_compute_possible_periods">> \o r3.trace ELSE acc
        r4 == stars_run_scheduler(v, e3, FALSE, FALSE, FALSE, instr, ~viaPP, viaPP,
                                  ch.alg, ch.x1, ch.x2)
        acc4 == acc3 \o <<"stars_run_scheduler">> \o r4.trace
        built == ScheduleBuilt(v, 0, 0, n, ch.eng)
        r5 == Export(v, r4.err, FALSE, FALSE, ch.x3, ScheduleJson(v, built),
                     "Failed to serialize schedule: e.what()", "serialize")
    IN
    IF viaPP /\ r3.code # "OK" THEN StageEnd(v, "stars_compute_possible_periods", acc, r3)
    ELSE IF r4.code # "OK" THEN StageEnd(v, "stars_run_scheduler", acc3, r4)
    ELSE StageEnd(v, "stars_schedule_to_json", acc4, r5)

\* stars_run_full_pipeline: context, blocks, (native: possible periods,)
\* scheduler, export, each stage on the result of the one before.
stars_run_full_pipeline(v, e0, inNull, outNull, ch) ==
    LET e == Entry(v, e0)
        r1 == stars_context_create(v, e, FALSE, FALSE, ch.cin)
        r2 == stars_blocks_load_json(v, r1.err, FALSE, FALSE, ch.bin)
        acc2 == <<"stars_context_create">> \o r1.trace
                \o <<"stars_blocks_load_json">> \o r2.trace
    IN
    IF inNull \/ outNull
    THEN Fail(make_error(v, e, "NULL_POINTER", "Null pointer argument"), <<>>, {})
    ELSE IF r1.code # "OK"
    THEN StageEnd(v, "stars_context_create", <<>>, r1)
    ELSE IF r2.code # "OK"
    THEN StageEnd(v, "stars_blocks_load_json", <<"stars_context_create">> \o r1.trace,
                  r2)
    ELSE PipelineTail(v, r2.err, acc2, ch)

\* stars_run_pipeline_from_file. native: open the file, then
\* stars_run_full_pipeline on its content. crate: the two file-taking stages,
\* then the scheduler and the export.
stars_run_pipeline_from_file(v, e0, pathNull, outNull, file, ch) ==
    LET e == Entry(v, e0) IN
    IF pathNull \/ outNull
    THEN Fail(make_error(v, e, "NULL_POINTER", "Null pointer argument"), <<>>, {})
    ELSE IF v = "native"
    THEN IF file = "missing"
         THEN Fail(make_error(v, e, "IO", "Cannot open file: path"), <<"open">>, {})
         ELSE LET r == stars_run_full_pipeline(v, e, FALSE, FALSE, ch)
              IN  [r EXCEPT !.trace = <<"open">> \o r.trace]
    ELSE LET r1 == stars_context_create_from_file(v, e, FALSE, FALSE, file, ch.cin)
             r2 == stars_blocks_load_file(v, r1.err, FALSE, FALSE, file, ch.bin)
             acc2 == <<"stars_context_create_from_file">> \o r1.trace
                     \o <<"stars_blocks_load_file">> \o r2.trace
         IN
         IF r1.code # "OK"
         THEN StageEnd(v, "stars_context_create_from_file", <<>>,
                       r1)
         ELSE IF r2.code # "OK"
         THEN StageEnd(v, "stars_blocks_load_file",
                       <<"stars_context_create_from_file">> \o r1.trace,
                       r2)
         ELSE PipelineTail(v, r2.err, acc2, ch)


\* ------------------------------------------------------------ the machine
\* No handle exists, every thread's slot is empty, no thread is inside a call
\* and no operation has been applied to a drawn input.
Init ==
    /\ variant \in Variants
    /\ ctx = [i \in Slots |-> NoCtx]
    /\ blk = [i \in Slots |-> NoBlk]
    /\ pp = [i \in Slots |-> NoPP]
    /\ sch = [i \in Slots |-> NoSch]
    /\ lastError = [t \in Threads |-> ""]
    /\ ret = [op |-> "none", t |-> "t1", code |-> "VOID", msg |-> NullStr,
              nulls |-> {}, optNull |-> FALSE, wrote |-> FALSE, val |-> NoVal,
              trace |-> <<>>, leaked |-> {}, live |-> {}]
    /\ crashed = FALSE
    /\ running = [t \in Threads |-> "idle"]
    /\ probe = [op |-> "none", stage |-> "done"]

\* One slot for the whole process instead of one per thread.
Leaves_Global(t, err) ==
    lastError' = [u \in Threads |-> IF err = AtEntry THEN lastError[u] ELSE err]

\* A fallible operation ends with outcome o on thread t: the thread's
\* last-error slot is as the call left it (AtEntry: as it found it).
Leaves(t, err) ==
    lastError' = [lastError EXCEPT ![t] = IF err = AtEntry THEN @ ELSE err]

\* The names of the null arguments among args, a set of <<name, is null>>.
Nulls(args) == {a[1] : a \in {b \in args : b[2]}}

\* One way a call can end: the required arguments that were null, the
\* outcome, and the object built (none unless the outcome is OK).
End(nulls, o, built, none) ==
    [nulls |-> nulls, o |-> o, built |-> IF o.code = "OK" THEN built ELSE none]

\* Every way each constructor can end, per variant.
ContextCreateEnds ==
    [v \in Variants |->
        {End(Nulls({<<"config_json", cfgNull>>, <<"out", outNull>>}),
             stars_context_create(v, AtEntry, cfgNull, outNull, in),
             ContextBuilt(v, in), NoCtx) :
            cfgNull \in BOOLEAN, outNull \in BOOLEAN, in \in CfgInputs}]

ContextCreateFromFileEnds ==
    [v \in Variants |->
        {End(Nulls({<<"path", pathNull>>, <<"out", outNull>>}),
             stars_context_create_from_file(v, AtEntry, pathNull, outNull, file, in),
             ContextBuilt(v, in), NoCtx) :
            pathNull \in BOOLEAN, outNull \in BOOLEAN, file \in FileStates,
            in \in CfgInputs}]

BlocksLoadJsonEnds ==
    [v \in Variants |->
        {End(Nulls({<<"json", jsonNull>>, <<"out", outNull>>}),
             stars_blocks_load_json(v, AtEntry, jsonNull, outNull, in),
             BlocksBuilt(v, in), NoBlk) :
            jsonNull \in BOOLEAN, outNull \in BOOLEAN, in \in BlkInputs}]

BlocksLoadFileEnds ==
    [v \in Variants |->
        {End(Nulls({<<"path", pathNull>>, <<"out", outNull>>}),
             stars_blocks_load_file(v, AtEntry, pathNull, outNull, file, in),
             BlocksBuilt(v, in), NoBlk) :
            pathNull \in BOOLEAN, outNull \in BOOLEAN, file \in FileStates,
            in \in BlkInputs}]

\* The shared block objects of collection b are alive while the collection
\* or a schedule holding shared pointers to them is.
BlocksAlive(b) ==
    \/ blk[b].st = "live"
    \/ \E s \in Slots : sch[s].st = "live" /\ sch[s].ofBlk = b /\ sch[s].ownsBlocks

\* What reading freed memory yields.
Garbage == <<"garbage", 0, 0, 0, 0>>

\* What the three exports of derived handles write for a live handle.
ScheduleText(s) ==
    IF BlocksAlive(sch[s].ofBlk) THEN ScheduleJson(variant, sch[s]) ELSE Garbage

StatsText(s) == ScheduleStats(variant, sch[s])

PeriodsText(p) == <<"periods", pp[p].n, 0, 0, 0>>

ContextCreate(t) ==
    /\ ~crashed
    /\ \E e \in ContextCreateEnds[variant] :
         LET i == FreeSlot(ctx)
         IN  /\ e.o.code = "OK" => i # 0
             /\ ctx' = IF e.o.code = "OK" THEN [ctx EXCEPT ![i] = e.built] ELSE ctx
             /\ Leaves(t, e.o.err)
    /\ UNCHANGED <<variant, running, probe, blk, pp, sch, ret, crashed>>

ContextCreateFromFile(t) ==
    /\ ~crashed
    /\ \E e \in ContextCreateFromFileEnds[variant] :
         LET i == FreeSlot(ctx)
         IN  /\ e.o.code = "OK" => i # 0
             /\ ctx' = IF e.o.code = "OK" THEN [ctx EXCEPT ![i] = e.built] ELSE ctx
             /\ Leaves(t, e.o.err)
    /\ UNCHANGED <<variant, running, probe, blk, pp, sch, ret, crashed>>

\* Destroy with the handle dereferenced before it is deleted: a null handle
\* is undefined behaviour too.
Destroy_NullUnsafe(f, none, h) ==
    IF h = NullHandle
    THEN /\ f' = f
         /\ crashed' \in BOOLEAN
    ELSE IF f[h].st = "live"
    THEN /\ f' = [f EXCEPT ![h] = [none EXCEPT !.st = "freed"]]
         /\ crashed' = crashed
    ELSE /\ f' = [f EXCEPT ![h] = [none EXCEPT !.st = "freed2"]]
         /\ crashed' \in BOOLEAN

\* delete handle, on the objects f of one family (none: the family's empty
\* object): nothing for a null handle; the object is freed for a live one;
\* for a handle already destroyed the behaviour is undefined: the object is
\* freed a second time, and the process aborts or goes on.
Destroy(f, none, h) ==
    IF h = NullHandle
    THEN /\ f' = f
         /\ crashed' = crashed
    ELSE IF f[h].st = "live"
    THEN /\ f' = [f EXCEPT ![h] = [none EXCEPT !.st = "freed"]]
         /\ crashed' = crashed
    ELSE /\ f' = [f EXCEPT ![h] = [none EXCEPT !.st = "freed2"]]
         /\ crashed' \in BOOLEAN

ContextDestroy(t) ==
    /\ ~crashed
    /\ \E h \in DestroyArgs(ctx) : Destroy(ctx, NoCtx, h)
    /\ UNCHANGED <<variant, running, probe, blk, pp, sch, lastError, ret>>

BlocksDestroy(t) ==
    /\ ~crashed
    /\ \E h \in DestroyArgs(blk) : Destroy(blk, NoBlk, h)
    /\ UNCHANGED <<variant, running, probe, ctx, pp, sch, lastError, ret>>

PossiblePeriodsDestroy(t) ==
    /\ ~crashed
    /\ \E h \in DestroyArgs(pp) : Destroy(pp, NoPP, h)
    /\ UNCHANGED <<variant, running, probe, ctx, blk, sch, lastError, ret>>

ScheduleDestroy(t) ==
    /\ ~crashed
    /\ \E h \in DestroyArgs(sch) : Destroy(sch, NoSch, h)
    /\ UNCHANGED <<variant, running, probe, ctx, blk, pp, lastError, ret>>

ContextGetExecutionPeriod(t) ==
    /\ ~crashed
    /\ \E h \in LiveArgs(ctx), outNull \in BOOLEAN, x \in Throws :
         LET val == <<"period", IF h = NullHandle THEN 0
                                ELSE IF ctx[h].period THEN 1 ELSE 0, 0, 0, 0>>
             o == Export(variant, AtEntry, h = NullHandle, outNull, x, val,
                         "Failed to serialize: e.what()", "serialize")
         IN  Leaves(t, o.err)
    /\ UNCHANGED <<variant, running, probe, ctx, blk, pp, sch, ret, crashed>>

BlocksLoadJson(t) ==
    /\ ~crashed
    /\ \E e \in BlocksLoadJsonEnds[variant] :
         LET i == FreeSlot(blk)
         IN  /\ e.o.code = "OK" => i # 0
             /\ blk' = IF e.o.code = "OK" THEN [blk EXCEPT ![i] = e.built] ELSE blk
             /\ Leaves(t, e.o.err)
    /\ UNCHANGED <<variant, running, probe, ctx, pp, sch, ret, crashed>>

BlocksLoadFile(t) ==
    /\ ~crashed
    /\ \E e \in BlocksLoadFileEnds[variant] :
         LET i == FreeSlot(blk)
         IN  /\ e.o.code = "OK" => i # 0
             /\ blk' = IF e.o.code = "OK" THEN [blk EXCEPT ![i] = e.built] ELSE blk
             /\ Leaves(t, e.o.err)
    /\ UNCHANGED <<variant, running, probe, ctx, pp, sch, ret, crashed>>

\* The call thread t is inside, if any, returns.
Returns(t) == running' = [running EXCEPT ![t] = "idle"]

BlocksToJson(t) ==
    /\ ~crashed
    /\ \E h \in LiveArgs(blk), outNull \in BOOLEAN, x \in Throws :
         LET val == <<"blocks", IF h = NullHandle THEN 0 ELSE blk[h].n, 0, 0, 0>>
             o == Export(variant, AtEntry, h = NullHandle, outNull, x, val,
                         "Failed to serialize blocks: e.what()", "serialize")
         IN  Leaves(t, o.err)
    /\ Returns(t)
    /\ UNCHANGED <<variant, probe, ctx, blk, pp, sch, ret, crashed>>

BlocksCount(t) ==
    /\ ~crashed
    /\ \E h \in LiveArgs(blk), outNull \in BOOLEAN :
         LET n == IF h = NullHandle THEN 0 ELSE blk[h].n
             o == stars_blocks_count(variant, AtEntry, h = NullHandle, outNull, n)
         IN  Leaves(t, o.err)
    /\ Returns(t)
    /\ UNCHANGED <<variant, probe, ctx, blk, pp, sch, ret, crashed>>

BlocksGetAt(t) ==
    /\ ~crashed
    /\ \E h \in LiveArgs(blk), outNull \in BOOLEAN, index \in 0..MaxElems, x \in Throws :
         LET n == IF h = NullHandle THEN 0 ELSE blk[h].n
             o == stars_blocks_get_at(variant, AtEntry, h = NullHandle, outNull, n,
                                      index, x)
         IN  Leaves(t, o.err)
    /\ UNCHANGED <<variant, running, probe, ctx, blk, pp, sch, ret, crashed>>

\* ComputePeriods was called on context c and collection b and ended as x:
\* where it writes in place, a call that raised has written or not.
Prescheduled(c, b, x) ==
    IF PreschedulerWritesInPlace(variant)
    THEN \E done \in IF x = "none" THEN {TRUE} ELSE BOOLEAN :
            /\ ctx' = [ctx EXCEPT ![c].cached = @ \/ done]
            /\ blk' = [blk EXCEPT ![b].annotated = @ \/ done]
    ELSE UNCHANGED <<ctx, blk>>

\* Whether outcome o of an operation called ComputePeriods.
CalledPrescheduler(o) == \E k \in 1..Len(o.trace) : o.trace[k] = "ComputePeriods"

ComputePossiblePeriods(t) ==
    /\ ~crashed
    /\ \E c \in LiveArgs(ctx), b \in LiveArgs(blk), outNull \in BOOLEAN, x \in Throws :
         LET instr == IF c = NullHandle THEN FALSE ELSE ctx[c].instr
             o == stars_compute_possible_periods(variant, AtEntry, c = NullHandle,
                                                 b = NullHandle, outNull, instr, x)
             i == FreeSlot(pp)
         IN  /\ o.code = "OK" => i # 0
             /\ pp' = IF o.code = "OK" THEN [pp EXCEPT ![i] = PeriodsBuilt(variant, blk[b].n)]
                      ELSE pp
             /\ IF CalledPrescheduler(o) THEN Prescheduled(c, b, x)
                ELSE UNCHANGED <<ctx, blk>>
             /\ Leaves(t, o.err)
    /\ Returns(t)
    /\ UNCHANGED <<variant, probe, sch, ret, crashed>>

PossiblePeriodsToJson(t) ==
    /\ ~crashed
    /\ \E h \in LiveArgs(pp), outNull \in BOOLEAN, x \in Throws :
         LET val == IF h = NullHandle THEN NoVal ELSE PeriodsText(h)
             o == Export(variant, AtEntry, h = NullHandle, outNull, x, val,
                         "Failed to serialize periods: e.what()", "serialize")
         IN  Leaves(t, o.err)
    /\ UNCHANGED <<variant, running, probe, ctx, blk, pp, sch, ret, crashed>>

RunScheduler(t) ==
    /\ ~crashed
    /\ \E c \in LiveArgs(ctx), b \in LiveArgs(blk), p \in LiveArgs(pp),
          outNull \in BOOLEAN, alg \in Algorithms, x1 \in Throws, x2 \in Throws :
         LET instr == IF c = NullHandle THEN FALSE ELSE ctx[c].instr
             comp == IF p = NullHandle THEN FALSE ELSE pp[p].computed
             o == stars_run_scheduler(variant, AtEntry, c = NullHandle, b = NullHandle,
                                      outNull, instr, p = NullHandle, comp, alg, x1, x2)
             i == FreeSlot(sch)
         IN  /\ o.code = "OK" => i # 0
             /\ IF CalledPrescheduler(o) THEN Prescheduled(c, b, x1)
                ELSE UNCHANGED <<ctx, blk>>
             /\ IF o.code = "OK"
                THEN \E eng \in EngineOutcomes(blk[b].n) :
                        sch' = [sch EXCEPT ![i] = ScheduleBuilt(variant, c, b, blk[b].n, eng)]
                ELSE sch' = sch
             /\ Leaves(t, o.err)
    /\ Returns(t)
    /\ UNCHANGED <<variant, probe, pp, ret, crashed>>

ScheduleToJson(t) ==
    /\ ~crashed
    /\ \E h \in LiveArgs(sch), outNull \in BOOLEAN, x \in Throws :
         LET val == IF h = NullHandle THEN NoVal ELSE ScheduleText(h)
             o == Export(variant, AtEntry, h = NullHandle, outNull, x, val,
                         "Failed to serialize schedule: e.what()", "serialize")
         IN  Leaves(t, o.err)
    /\ UNCHANGED <<variant, running, probe, ctx, blk, pp, sch, ret, crashed>>

ScheduleGetStats(t) ==
    /\ ~crashed
    /\ \E h \in LiveArgs(sch), outNull \in BOOLEAN, x \in Throws :
         LET val == IF h = NullHandle THEN NoVal ELSE StatsText(h)
             o == Export(variant, AtEntry, h = NullHandle, outNull, x, val,
                         "Failed to get stats: e.what()", "serialize")
         IN  Leaves(t, o.err)
    /\ UNCHANGED <<variant, running, probe, ctx, blk, pp, sch, ret, crashed>>

\* The texts a combined pipeline input can be: the context decoder and the
\* blocks decoder read the same text.
BlkInputsFor(cin) ==
    {bin \in BlkInputs :
        /\ bin.syntax = cin.syntax
        /\ (cin.top = "object") = (bin.shape = "object")}

\* The choices of a pipeline run, stage by stage: a stage that is not
\* reached has one (unused) choice.
TailChoices(n) ==
    UNION {
      UNION {
        [x1 : {x1}, alg : IF x1 = "none" THEN Algorithms ELSE {STARS_SCHEDULER_ACCUMULATIVE},
         x2 : {x2},
         eng : IF x1 = "none" /\ x2 = "none" THEN EngineOutcomes(n) ELSE EngineOutcomes(0),
         x3 : IF x1 = "none" /\ x2 = "none" THEN Throws ELSE {"none"}]
        : x2 \in IF x1 = "none" THEN Throws ELSE {"none"}}
      : x1 \in Throws}

NoTail == [x1 |-> "none", alg |-> STARS_SCHEDULER_ACCUMULATIVE, x2 |-> "none",
           eng |-> [has |-> FALSE, units |-> 0, unsched |-> 0, fit |-> 0], x3 |-> "none"]

Choice(cin, bin, tl) ==
    [cin |-> cin, bin |-> bin, x1 |-> tl.x1, alg |-> tl.alg, x2 |-> tl.x2,
     eng |-> tl.eng, x3 |-> tl.x3]

PipelineChoices(v, file) ==
    UNION {
      UNION {
        LET r1 == IF file THEN stars_context_create_from_file(v, "", FALSE, FALSE, "readable", cin)
                  ELSE stars_context_create(v, "", FALSE, FALSE, cin)
            r2 == IF file THEN stars_blocks_load_file(v, "", FALSE, FALSE, "readable", bin)
                  ELSE stars_blocks_load_json(v, "", FALSE, FALSE, bin)
        IN  {Choice(cin, bin, tl) :
               tl \in IF r1.code = "OK" /\ r2.code = "OK"
                      THEN TailChoices(CountKind(bin.elems, "task")) ELSE {NoTail}}
        : bin \in BlkInputsFor(cin)}
      : cin \in CfgInputs}

\* Every way a pipeline call can end, per variant.
AnyChoice == Choice(CHOOSE c \in CfgInputs : TRUE, CHOOSE b \in BlkInputs : TRUE, NoTail)

SomeNull == (BOOLEAN \X BOOLEAN) \ {<<FALSE, FALSE>>}

FullPipelineEnds ==
    [v \in Variants |->
        {End({}, stars_run_full_pipeline(v, AtEntry, FALSE, FALSE, ch), NoSch, NoSch) :
            ch \in PipelineChoices(v, FALSE)}
        \cup {End(Nulls({<<"input_json", nl[1]>>, <<"out", nl[2]>>}),
                  stars_run_full_pipeline(v, AtEntry, nl[1], nl[2], AnyChoice),
                  NoSch, NoSch) : nl \in SomeNull}]

FilePipelineEnds ==
    [v \in Variants |->
        {End({}, stars_run_pipeline_from_file(v, AtEntry, FALSE, FALSE, file, ch),
             NoSch, NoSch) :
            file \in FileStates, ch \in PipelineChoices(v, v = "crate")}
        \cup {End(Nulls({<<"path", nl[1]>>, <<"out", nl[2]>>}),
                  stars_run_pipeline_from_file(v, AtEntry, nl[1], nl[2], "readable",
                                               AnyChoice),
                  NoSch, NoSch) : nl \in SomeNull}]

\* The last-error slots a pipeline call can leave.
FullPipelineErrs == [v \in Variants |-> {e.o.err : e \in FullPipelineEnds[v]}]

FilePipelineErrs == [v \in Variants |-> {e.o.err : e \in FilePipelineEnds[v]}]

RunFullPipeline(t) ==
    /\ ~crashed
    /\ \E err \in FullPipelineErrs[variant] : Leaves(t, err)
    /\ UNCHANGED <<variant, running, probe, ctx, blk, pp, sch, ret, crashed>>

RunPipelineFromFile(t) ==
    /\ ~crashed
    /\ \E err \in FilePipelineErrs[variant] : Leaves(t, err)
    /\ UNCHANGED <<variant, running, probe, ctx, blk, pp, sch, ret, crashed>>

ClearError(t) ==
    /\ ~crashed
    /\ lastError' = [lastError EXCEPT ![t] = clear_error(lastError[t])]
    /\ UNCHANGED <<variant, running, probe, ctx, blk, pp, sch, ret, crashed>>

\* The threads that call into the library.
Callers == {"t1"}

\* The library over the handles a caller holds. (stars_get_last_error only
\* reads; it is the operator of that name.)
Next ==
    \E t \in Callers :
        \/ ContextCreate(t)
        \/ ContextCreateFromFile(t)
        \/ ContextDestroy(t)
        \/ ContextGetExecutionPeriod(t)
        \/ BlocksLoadJson(t)
        \/ BlocksLoadFile(t)
        \/ BlocksToJson(t)
        \/ BlocksCount(t)
        \/ BlocksGetAt(t)
        \/ BlocksDestroy(t)
        \/ ComputePossiblePeriods(t)
        \/ PossiblePeriodsToJson(t)
        \/ PossiblePeriodsDestroy(t)
        \/ RunScheduler(t)
        \/ ScheduleToJson(t)
        \/ ScheduleGetStats(t)
        \/ ScheduleDestroy(t)
        \/ RunFullPipeline(t)
        \/ RunPipelineFromFile(t)
        \/ ClearError(t)

Spec == Init /\ [][Next]_vars

\* ------------------------------------------------- the calls, one by one
\* Each operation applied to arguments drawn from what a caller can pass:
\* null or a handle of an object as its constructor builds it. The call is
\* recorded with its result, the required arguments that were null, what it
\* wrote to its output parameter and what it left allocated.
Contexts(v) ==
    {ContextBuilt(v, in) :
        in \in {i \in CfgInputs : stars_context_create(v, AtEntry, FALSE, FALSE, i).code = "OK"}}

Collections(v) == {BlocksBuilt(v, in) : in \in BlkInputs}

Schedules(v) ==
    UNION {{ScheduleBuilt(v, 1, 1, n, eng) : eng \in EngineOutcomes(n)} : n \in 0..MaxElems}

Called(t, op, o, nulls, optNull) ==
    /\ Leaves(t, o.err)
    /\ ret' = [op |-> op, t |-> t, code |-> o.code, msg |-> o.msg, nulls |-> nulls,
               optNull |-> optNull, wrote |-> o.wrote, val |-> o.val,
               trace |-> o.trace, leaked |-> o.leaked, live |-> o.live]
    /\ UNCHANGED <<variant, running, probe, ctx, blk, pp, sch, crashed>>

CallContextCreate(t) ==
    \E e \in ContextCreateEnds[variant] : Called(t, "stars_context_create", e.o, e.nulls, FALSE)

CallContextCreateFromFile(t) ==
    \E e \in ContextCreateFromFileEnds[variant] : Called(t, "stars_context_create_from_file", e.o, e.nulls, FALSE)

CallContextGetExecutionPeriod(t) ==
    \E hNull \in BOOLEAN, outNull \in BOOLEAN, c \in Contexts(variant), x \in Throws :
        Called(t, "stars_context_get_execution_period",
               Export(variant, AtEntry, hNull, outNull, x,
                      <<"period", IF c.period THEN 1 ELSE 0, 0, 0, 0>>,
                      "Failed to serialize: e.what()", "serialize"),
               Nulls({<<"ctx", hNull>>, <<"out", outNull>>}), FALSE)

CallBlocksLoadJson(t) ==
    \E e \in BlocksLoadJsonEnds[variant] : Called(t, "stars_blocks_load_json", e.o, e.nulls, FALSE)

CallBlocksLoadFile(t) ==
    \E e \in BlocksLoadFileEnds[variant] : Called(t, "stars_blocks_load_file", e.o, e.nulls, FALSE)

CallBlocksToJson(t) ==
    \E hNull \in BOOLEAN, outNull \in BOOLEAN, b \in Collections(variant), x \in Throws :
        Called(t, "stars_blocks_to_json",
               Export(variant, AtEntry, hNull, outNull, x, <<"blocks", b.n, 0, 0, 0>>,
                      "Failed to serialize blocks: e.what()", "serialize"),
               Nulls({<<"blocks", hNull>>, <<"out", outNull>>}), FALSE)

CallBlocksCount(t) ==
    \E hNull \in BOOLEAN, outNull \in BOOLEAN, b \in Collections(variant) :
        Called(t, "stars_blocks_count",
               stars_blocks_count(variant, AtEntry, hNull, outNull, b.n),
               Nulls({<<"blocks", hNull>>, <<"out", outNull>>}), FALSE)

CallBlocksGetAt(t) ==
    \E hNull \in BOOLEAN, outNull \in BOOLEAN, b \in Collections(variant),
       index \in 0..MaxElems, x \in Throws :
        Called(t, "stars_blocks_get_at",
               stars_blocks_get_at(variant, AtEntry, hNull, outNull, b.n, index, x),
               Nulls({<<"blocks", hNull>>, <<"out", outNull>>}), FALSE)

CallComputePossiblePeriods(t) ==
    \E cNull \in BOOLEAN, bNull \in BOOLEAN, outNull \in BOOLEAN,
       c \in Contexts(variant), x \in Throws :
        Called(t, "stars_compute_possible_periods",
               stars_compute_possible_periods(variant, AtEntry, cNull, bNull, outNull,
                                              c.instr, x),
               Nulls({<<"ctx", cNull>>, <<"blocks", bNull>>, <<"out", outNull>>}), FALSE)

CallPossiblePeriodsToJson(t) ==
    \E hNull \in BOOLEAN, outNull \in BOOLEAN, b \in Collections(variant), x \in Throws :
        Called(t, "stars_possible_periods_to_json",
               Export(variant, AtEntry, hNull, outNull, x,
                      <<"periods", PeriodsBuilt(variant, b.n).n, 0, 0, 0>>,
                      "Failed to serialize periods: e.what()", "serialize"),
               Nulls({<<"periods", hNull>>, <<"out", outNull>>}), FALSE)

CallRunScheduler(t) ==
    \E cNull \in BOOLEAN, bNull \in BOOLEAN, pNull \in BOOLEAN, outNull \in BOOLEAN,
       c \in Contexts(variant), alg \in Algorithms, x1 \in Throws, x2 \in Throws :
        Called(t, "stars_run_scheduler",
               stars_run_scheduler(variant, AtEntry, cNull, bNull, outNull, c.instr, pNull,
                                   PeriodsBuilt(variant, 0).computed, alg, x1, x2),
               Nulls({<<"ctx", cNull>>, <<"blocks", bNull>>, <<"out", outNull>>}), pNull)

CallScheduleToJson(t) ==
    \E hNull \in BOOLEAN, outNull \in BOOLEAN, s \in Schedules(variant), x \in Throws :
        Called(t, "stars_schedule_to_json",
               Export(variant, AtEntry, hNull, outNull, x, ScheduleJson(variant, s),
                      "Failed to serialize schedule: e.what()", "serialize"),
               Nulls({<<"schedule", hNull>>, <<"out", outNull>>}), FALSE)

CallScheduleGetStats(t) ==
    \E hNull \in BOOLEAN, outNull \in BOOLEAN, s \in Schedules(variant), x \in Throws :
        Called(t, "stars_schedule_get_stats",
               Export(variant, AtEntry, hNull, outNull, x, ScheduleStats(variant, s),
                      "Failed to get stats: e.what()", "serialize"),
               Nulls({<<"schedule", hNull>>, <<"out", outNull>>}), FALSE)

CallRunFullPipeline(t) ==
    \E e \in FullPipelineEnds[variant] : Called(t, "stars_run_full_pipeline", e.o, e.nulls, FALSE)

CallRunPipelineFromFile(t) ==
    \E e \in FilePipelineEnds[variant] : Called(t, "stars_run_pipeline_from_file", e.o, e.nulls, FALSE)

\* The two operations of the error channel, which return no StarsResult.
VoidCall(t, op, msg) ==
    ret' = [op |-> op, t |-> t, code |-> "VOID", msg |-> msg, nulls |-> {},
            optNull |-> FALSE, wrote |-> FALSE, val |-> NoVal, trace |-> <<>>,
            leaked |-> {}, live |-> {}]

CallGetLastError(t) ==
    /\ VoidCall(t, "stars_get_last_error", stars_get_last_error(t))
    /\ UNCHANGED <<variant, running, probe, ctx, blk, pp, sch, lastError, crashed>>

CallClearError(t) ==
    /\ lastError' = [lastError EXCEPT ![t] = clear_error(lastError[t])]
    /\ VoidCall(t, "stars_clear_error", NullStr)
    /\ UNCHANGED <<variant, running, probe, ctx, blk, pp, sch, crashed>>

NextCalls ==
    \E t \in Callers :
        \/ CallContextCreate(t)
        \/ CallContextCreateFromFile(t)
        \/ CallContextGetExecutionPeriod(t)
        \/ CallBlocksLoadJson(t)
        \/ CallBlocksLoadFile(t)
        \/ CallBlocksToJson(t)
        \/ CallBlocksCount(t)
        \/ CallBlocksGetAt(t)
        \/ CallComputePossiblePeriods(t)
        \/ CallPossiblePeriodsToJson(t)
        \/ CallRunScheduler(t)
        \/ CallScheduleToJson(t)
        \/ CallScheduleGetStats(t)
        \/ CallRunFullPipeline(t)
        \/ CallRunPipelineFromFile(t)
        \/ CallGetLastError(t)
        \/ CallClearError(t)

SpecCalls == Init /\ [][NextCalls]_vars

\* ------------------------------------------------------- two threads
\* Calls of two threads, interleaved: each thread has its own g_last_error
\* (thread_local), so a call touches the slot of the thread it runs on.
NextThreads ==
    \E t \in Threads :
        \/ CallContextCreate(t)
        \/ CallBlocksLoadJson(t)
        \/ CallBlocksCount(t)
        \/ CallComputePossiblePeriods(t)
        \/ CallGetLastError(t)
        \/ CallClearError(t)

SpecThreads == Init /\ [][NextThreads]_vars

\* ------------------------------------------ calls in flight on shared handles
\* Operations that take a Context or a BlockCollection and create or export
\* from them.
ConsumingOps ==
    {"stars_compute_possible_periods", "stars_run_scheduler", "stars_blocks_to_json"}

\* Thread t enters a consuming operation on the live Context and
\* BlockCollection (one that creates a handle, while the caller has room
\* for it); the call returns in a later step, so that the calls of two
\* threads overlap.
Enter(t) ==
    /\ ~crashed
    /\ running[t] = "idle"
    /\ ctx[1].st = "live"
    /\ blk[1].st = "live"
    /\ \E op \in ConsumingOps :
         /\ op = "stars_compute_possible_periods" => FreeSlot(pp) # 0
         /\ op = "stars_run_scheduler" => FreeSlot(sch) # 0
         /\ running' = [running EXCEPT ![t] = op]
    /\ UNCHANGED <<variant, probe, ctx, blk, pp, sch, lastError, ret, crashed>>

\* Two threads share one Context and one BlockCollection, each as a
\* successful constructor call left it.
InitRace ==
    /\ variant \in Variants
    /\ \E c \in Contexts(variant) : ctx = [i \in Slots |-> c]
    /\ \E b \in Collections(variant) : blk = [i \in Slots |-> b]
    /\ pp = [i \in Slots |-> NoPP]
    /\ sch = [i \in Slots |-> NoSch]
    /\ lastError = [t \in Threads |-> ""]
    /\ ret = [op |-> "none", t |-> "t1", code |-> "VOID", msg |-> NullStr,
              nulls |-> {}, optNull |-> FALSE, wrote |-> FALSE, val |-> NoVal,
              trace |-> <<>>, leaked |-> {}, live |-> {}]
    /\ crashed = FALSE
    /\ running = [t \in Threads |-> "idle"]
    /\ probe = [op |-> "none", stage |-> "done"]

NextRace ==
    \E t \in Threads :
        \/ Enter(t)
        \/ running[t] = "stars_compute_possible_periods" /\ ComputePossiblePeriods(t)
        \/ running[t] = "stars_run_scheduler" /\ RunScheduler(t)
        \/ running[t] = "stars_blocks_to_json" /\ BlocksToJson(t)

SpecRace == InitRace /\ [][NextRace]_vars

\* ------------------------------------------- operations on drawn inputs
\* The seed stars_run_scheduler hands to the engine it constructs for
\* params.algorithm, NoSeed when it hands none. crate: Accumulative gets
\* params.seed when that is >= 0, Hybrid gets seeds = {}. native: both
\* configurations are built without params.seed.
NoSeed == -1
SeedHanded(v, alg, seed) ==
    IF v = "crate" /\ alg = STARS_SCHEDULER_ACCUMULATIVE /\ seed >= 0 THEN seed
    ELSE NoSeed

\* The configuration stars_run_scheduler constructs the engine with, for
\* params p (iters: max_iterations, limit: time_limit_seconds, seed).
\* crate: both configurations get `max_iterations ? max_iterations : 50`.
\* native: Hybrid gets the literal 50 (settlerIterations), Accumulative a
\* default-constructed Configuration (iterations 0 here: none handed).
\* Neither variant reads time_limit_seconds (limit 0: none handed).
EngineConfig(v, alg, p) ==
    [iterations |-> IF v = "crate" THEN (IF p.iters # 0 THEN p.iters ELSE 50)
                    ELSE IF alg = STARS_SCHEDULER_HYBRID_ACCUMULATIVE THEN 50 ELSE 0,
     seed |-> SeedHanded(v, alg, p.seed),
     limit |-> 0]

\* The length end - begin of an execution period with begin <= end, as a
\* stars::time::Duration holds it: whole days and the hours, minutes and
\* seconds within the day.
MaxDays == 1

\* The longest array given to the blocks round trip.
MaxProbeElems == 2
Durations == [days : 0..MaxDays, hours : {0, 5}, minutes : {0, 7}, seconds : {0, 30}]

TotalSeconds(d) == ((d.days * 24 + d.hours) * 60 + d.minutes) * 60 + d.seconds

\* duration_days as stars_context_get_execution_period writes it, in units
\* of 1/86400 day. native: duration.Seconds() / 86400.0, where Seconds() is
\* the seconds field of the duration (format_datetime prints Hours(),
\* Minutes() and Seconds() as the two-digit fields of a time of day).
\* crate: GetDuration().TotalHours() / 24.0, the total length.
ExecutionPeriodDays(v, d) ==
    IF v = "native" THEN d.seconds ELSE TotalSeconds(d)

\* An input is a text T, as the context decoder (ch.cin) and the blocks
\* decoder (ch.bin) see it, the state of the file that holds it, and the
\* choices of the pipeline stages behind the decoders. A pipeline input has
\* stage choices when one of the two call shapes gets past its decoders.
ProbeInputs(v) ==
    [op : {"stars_context_create"}, stage : {"drawn"}, file : FileStates,
     ch : {Choice(cin, AnyChoice.bin, NoTail) : cin \in CfgInputs}]
    \cup [op : {"stars_blocks_load_json"}, stage : {"drawn"}, file : FileStates,
          ch : {Choice(AnyChoice.cin, bin, NoTail) : bin \in BlkInputs}]
    \cup [op : {"stars_blocks_to_json"}, stage : {"drawn"}, file : {"readable"},
          ch : {Choice(AnyChoice.cin, bin, NoTail) :
                  bin \in BlkInputs
                          \cup [syntax : {"ok"}, shape : {"array"}, field : {"absent"},
                                elems : SeqsUpTo(ProbeElemKinds, MaxProbeElems)]}]
    \cup [op : {"stars_run_full_pipeline"}, stage : {"drawn"}, file : FileStates,
          ch : PipelineChoices(v, FALSE) \cup PipelineChoices(v, TRUE)]
    \cup [op : {"stars_context_get_execution_period"}, stage : {"drawn"},
          file : {"readable"}, ch : [dur : Durations]]
    \cup [op : {"stars_run_scheduler"}, stage : {"drawn"}, file : {"readable"},
          ch : UNION {
                 {c \in [n : {n}, alg : Algorithms, seed : {-1, 0, 7},
                         iters : {0, 3}, limit : {0, 5},
                         eng : EngineOutcomes(n), eng2 : EngineOutcomes(n)] :
                     SeedHanded(v, c.alg, c.seed) # NoSeed => c.eng2 = c.eng}
                 : n \in 0..MaxElems}]
    \cup [op : {"stars_compute_possible_periods"}, stage : {"drawn"}, file : {"readable"},
          ch : [instr : {c.instr : c \in Contexts(v)}, alg : Algorithms,
                x1 : Throws, x2 : Throws]]

InitInputs ==
    /\ variant \in Variants
    /\ ctx = [i \in Slots |-> NoCtx]
    /\ blk = [i \in Slots |-> NoBlk]
    /\ pp = [i \in Slots |-> NoPP]
    /\ sch = [i \in Slots |-> NoSch]
    /\ lastError = [t \in Threads |-> ""]
    /\ ret = [op |-> "none", t |-> "t1", code |-> "VOID", msg |-> NullStr,
              nulls |-> {}, optNull |-> FALSE, wrote |-> FALSE, val |-> NoVal,
              trace |-> <<>>, leaked |-> {}, live |-> {}]
    /\ crashed = FALSE
    /\ running = [t \in Threads |-> "idle"]
    /\ probe \in ProbeInputs(variant)

\* Two calls were made on the drawn input, one after the other, and ended
\* as o and o2.
Applied(t, o, o2) ==
    /\ probe' = [op |-> probe.op, stage |-> "done", file |-> probe.file,
                 ch |-> probe.ch, o |-> o, o2 |-> o2]
    /\ Leaves(t, o2.err)
    /\ UNCHANGED <<variant, running, ctx, blk, pp, sch, ret, crashed>>

\* stars_context_create on T, then stars_context_create_from_file on the
\* file that holds T.
ApplyContextCreate(t) ==
    /\ probe.op = "stars_context_create" /\ probe.stage = "drawn"
    /\ LET o == stars_context_create(variant, AtEntry, FALSE, FALSE, probe.ch.cin)
       IN  Applied(t, o,
                   stars_context_create_from_file(variant, o.err, FALSE, FALSE,
                                                  probe.file, probe.ch.cin))

\* stars_blocks_load_json on T, then stars_blocks_load_file on the file that
\* holds T.
ApplyBlocksLoad(t) ==
    /\ probe.op = "stars_blocks_load_json" /\ probe.stage = "drawn"
    /\ LET o == stars_blocks_load_json(variant, AtEntry, FALSE, FALSE, probe.ch.bin)
       IN  Applied(t, o,
                   stars_blocks_load_file(variant, o.err, FALSE, FALSE,
                                          probe.file, probe.ch.bin))

\* stars_run_full_pipeline on T, then stars_run_pipeline_from_file on the
\* file that holds T.
ApplyPipeline(t) ==
    /\ probe.op = "stars_run_full_pipeline" /\ probe.stage = "drawn"
    /\ LET o == stars_run_full_pipeline(variant, AtEntry, FALSE, FALSE, probe.ch)
       IN  Applied(t, o,
                   stars_run_pipeline_from_file(variant, o.err, FALSE, FALSE,
                                                probe.file, probe.ch))

\* native stars_blocks_to_json: a bare array with one {"name", "priority"}
\* object per block. No key of such an object contains "ObservationTask",
\* so the decoding loop of stars_blocks_load_json takes no task from it.
native_blocks_to_json(n) ==
    [syntax |-> "ok", shape |-> "array", field |-> "absent",
     elems |-> [k \in 1..n |-> "unknown"]]

\* crate stars_blocks_to_json: ScheduleJsonBuilder::Build(handle->blocks),
\* the counterpart of the Deserializer of stars_blocks_load_json: an array
\* with one decodable element per block.
crate_blocks_to_json(n) ==
    [syntax |-> "ok", shape |-> "array", field |-> "absent",
     elems |-> [k \in 1..n |-> "task"]]

\* stars_blocks_load_json on T and stars_blocks_count on the result; when
\* that succeeds, stars_blocks_to_json, stars_blocks_load_json on the
\* exported text and stars_blocks_count on the result.
ApplyBlocksRoundTrip(t) ==
    /\ probe.op = "stars_blocks_to_json" /\ probe.stage = "drawn"
    /\ LET n == BlocksBuilt(variant, probe.ch.bin).n
           r1 == stars_blocks_load_json(variant, AtEntry, FALSE, FALSE, probe.ch.bin)
           o == IF r1.code # "OK" THEN r1
                ELSE stars_blocks_count(variant, r1.err, FALSE, FALSE, n)
           x == Export(variant, o.err, FALSE, FALSE, "none", <<"blocks", n, 0, 0, 0>>,
                       "Failed to serialize blocks: e.what()", "serialize")
           text == IF variant = "native" THEN native_blocks_to_json(n)
                   ELSE crate_blocks_to_json(n)
           r2 == stars_blocks_load_json(variant, x.err, FALSE, FALSE, text)
           o2 == IF r2.code # "OK" THEN r2
                 ELSE stars_blocks_count(variant, r2.err, FALSE, FALSE,
                                         BlocksBuilt(variant, text).n)
       IN  Applied(t, o, IF r1.code # "OK" THEN o ELSE o2)

\* stars_context_get_execution_period on a Context whose execution period
\* has the drawn length.
ApplyGetExecutionPeriod(t) ==
    /\ probe.op = "stars_context_get_execution_period" /\ probe.stage = "drawn"
    /\ LET o == Export(variant, AtEntry, FALSE, FALSE, "none",
                       <<"period", ExecutionPeriodDays(variant, probe.ch.dur), 0, 0, 0>>,
                       "Failed to serialize: e.what()", "serialize")
       IN  Applied(t, o, o)

\* stars_run_scheduler twice with the same params on the same Context and
\* collection of n blocks (no PossiblePeriods given), each followed by
\* stars_schedule_get_stats on its Schedule. The two engine runs return the
\* same result when the engine was handed a seed. cfg: the configuration
\* the engine was constructed with.
ApplyRunSchedulerTwice(t) ==
    /\ probe.op = "stars_run_scheduler" /\ probe.stage = "drawn"
    /\ LET c == probe.ch
           r1 == stars_run_scheduler(variant, AtEntry, FALSE, FALSE, FALSE, TRUE, TRUE,
                                     FALSE, c.alg, "none", "none")
           o == IF r1.code # "OK" THEN r1
                ELSE Export(variant, r1.err, FALSE, FALSE, "none",
                            ScheduleStats(variant, ScheduleBuilt(variant, 1, 1, c.n, c.eng)),
                            "Failed to get stats: e.what()", "serialize")
           r2 == stars_run_scheduler(variant, o.err, FALSE, FALSE, FALSE, TRUE, TRUE,
                                     FALSE, c.alg, "none", "none")
           o2 == IF r2.code # "OK" THEN r2
                 ELSE Export(variant, r2.err, FALSE, FALSE, "none",
                             ScheduleStats(variant, ScheduleBuilt(variant, 1, 1, c.n, c.eng2)),
                             "Failed to get stats: e.what()", "serialize")
       IN  /\ probe' = [op |-> probe.op, stage |-> "done", file |-> probe.file,
                        ch |-> c, o |-> o, o2 |-> o2,
                        cfg |-> EngineConfig(variant, c.alg, c)]
           /\ Leaves(t, o2.err)
    /\ UNCHANGED <<variant, running, ctx, blk, pp, sch, ret, crashed>>

\* stars_compute_possible_periods, then stars_run_scheduler without a
\* PossiblePeriods handle, on a Context as stars_context_create leaves one
\* (with or without an instrument) and a BlockCollection.
ApplyPrescheduler(t) ==
    /\ probe.op = "stars_compute_possible_periods" /\ probe.stage = "drawn"
    /\ LET c == probe.ch
           o == stars_compute_possible_periods(variant, AtEntry, FALSE, FALSE, FALSE,
                                               c.instr, c.x1)
       IN  Applied(t, o,
                   stars_run_scheduler(variant, o.err, FALSE, FALSE, FALSE, c.instr,
                                       TRUE, FALSE, c.alg, c.x1, c.x2))

NextInputs ==
    \E t \in Callers :
        \/ ApplyPrescheduler(t)
        \/ ApplyRunSchedulerTwice(t)
        \/ ApplyGetExecutionPeriod(t)
        \/ ApplyContextCreate(t)
        \/ ApplyBlocksLoad(t)
        \/ ApplyPipeline(t)
        \/ ApplyBlocksRoundTrip(t)

SpecInputs == InitInputs /\ [][NextInputs]_vars

\* ------------------------------------------------- destroy calls, recorded
\* A destroy call with the handle the caller passed on record: the four
\* stars_*_destroy operations are `delete handle;` and return nothing.
CallDestroy(t) ==
    /\ ~crashed
    /\ \E fam \in Families :
         \E h \in DestroyArgs(CASE fam = "ctx" -> ctx [] fam = "blk" -> blk
                                [] fam = "pp" -> pp [] fam = "sch" -> sch) :
            /\ CASE fam = "ctx" -> Destroy(ctx, NoCtx, h) /\ UNCHANGED <<blk, pp, sch>>
                 [] fam = "blk" -> Destroy(blk, NoBlk, h) /\ UNCHANGED <<ctx, pp, sch>>
                 [] fam = "pp" -> Destroy(pp, NoPP, h) /\ UNCHANGED <<ctx, blk, sch>>
                 [] fam = "sch" -> Destroy(sch, NoSch, h) /\ UNCHANGED <<ctx, blk, pp>>
            /\ ret' = [op |-> CASE fam = "ctx" -> "stars_context_destroy"
                                [] fam = "blk" -> "stars_blocks_destroy"
                                [] fam = "pp" -> "stars_possible_periods_destroy"
                                [] fam = "sch" -> "stars_schedule_destroy",
                       t |-> t, code |-> "VOID", msg |-> NullStr,
                       nulls |-> IF h = NullHandle THEN {"handle"} ELSE {},
                       optNull |-> FALSE, wrote |-> FALSE, val |-> NoVal,
                       trace |-> <<>>, leaked |-> {}, live |-> {}]
    /\ UNCHANGED <<variant, running, probe, lastError>>

\* Handles obtained, destroyed and the error slot read, each destroy on record.
NextDestroy ==
    \E t \in Callers :
        \/ ContextCreate(t)
        \/ BlocksLoadJson(t)
        \/ ComputePossiblePeriods(t)
        \/ CallDestroy(t)
        \/ CallGetLastError(t)

SpecDestroy == Init /\ [][NextDestroy]_vars

\* ------------------------------------------ one context, two collections
\* The caller holds one Context with an instrument, two BlockCollections and
\* at most one PossiblePeriods handle. probe keeps: the collections on which
\* ComputePeriods has completed (prepared), the collection the held
\* PossiblePeriods handle was computed from (handle, 0: none held), and for
\* the last stars_run_scheduler call that reached the engine, the collection
\* it ran on (ranOn, 0: none yet) and whether ComputePeriods had completed
\* on it by then (ranPrepared).
Colls == {1, 2}

InitPairs ==
    /\ variant \in Variants
    /\ ctx = [i \in Slots |-> NoCtx]
    /\ blk = [i \in Slots |-> NoBlk]
    /\ pp = [i \in Slots |-> NoPP]
    /\ sch = [i \in Slots |-> NoSch]
    /\ lastError = [t \in Threads |-> ""]
    /\ ret = [op |-> "none", t |-> "t1", code |-> "VOID", msg |-> NullStr,
              nulls |-> {}, optNull |-> FALSE, wrote |-> FALSE, val |-> NoVal,
              trace |-> <<>>, leaked |-> {}, live |-> {}]
    /\ crashed = FALSE
    /\ running = [t \in Threads |-> "idle"]
    /\ probe = [op |-> "pairs", stage |-> "done", prepared |-> {}, handle |-> 0,
                ranOn |-> 0, ranPrepared |-> FALSE]

\* stars_compute_possible_periods(ctx, collection b, &out): the handle the
\* caller held before is destroyed when a new one is written.
PairComputePossiblePeriods(t) ==
    /\ probe.op = "pairs"
    /\ \E b \in Colls, x \in Throws :
         LET o == stars_compute_possible_periods(variant, AtEntry, FALSE, FALSE, FALSE,
                                                 TRUE, x)
         IN  /\ probe' = [probe EXCEPT
                            !.prepared = IF CalledPrescheduler(o) /\ x = "none"
                                         THEN @ \cup {b} ELSE @,
                            !.handle = IF o.code = "OK" THEN b ELSE @]
             /\ Leaves(t, o.err)
    /\ UNCHANGED <<variant, running, ctx, blk, pp, sch, ret, crashed>>

\* stars_run_scheduler(ctx, collection b, p, params, &out), p null or the
\* handle the caller holds.
PairRunScheduler(t) ==
    /\ probe.op = "pairs"
    /\ \E b \in Colls, pNull \in BOOLEAN, alg \in Algorithms, x1 \in Throws, x2 \in Throws :
         LET held == ~pNull /\ probe.handle # 0
             o == stars_run_scheduler(variant, AtEntry, FALSE, FALSE, FALSE, TRUE,
                                      ~held, PeriodsBuilt(variant, 0).computed, alg, x1, x2)
             done == CalledPrescheduler(o) /\ x1 = "none"
             engine == \E k \in 1..Len(o.trace) :
                          o.trace[k] \in {"Accumulative.Schedule", "Hybrid.Schedule"}
             prepared == IF done THEN probe.prepared \cup {b} ELSE probe.prepared
         IN  /\ probe' = [probe EXCEPT
                            !.prepared = prepared,
                            !.ranOn = IF engine THEN b ELSE @,
                            !.ranPrepared = IF engine THEN b \in prepared ELSE @]
             /\ Leaves(t, o.err)
    /\ UNCHANGED <<variant, running, ctx, blk, pp, sch, ret, crashed>>

NextPairs ==
    \E t \in Callers :
        \/ PairComputePossiblePeriods(t)
        \/ PairRunScheduler(t)

SpecPairs == InitPairs /\ [][NextPairs]_vars

\* ---------------------------------------------------------------- claims
FallibleOps ==
    {"stars_context_create", "stars_context_create_from_file",
     "stars_context_get_execution_period", "stars_blocks_load_json",
     "stars_blocks_load_file", "stars_blocks_to_json", "stars_blocks_count",
     "stars_blocks_get_at", "stars_compute_possible_periods",
     "stars_possible_periods_to_json", "stars_run_scheduler", "stars_schedule_to_json",
     "stars_schedule_get_stats", "stars_run_full_pipeline",
     "stars_run_pipeline_from_file"}

\* The last call returned a StarsResult with a non-OK code.
ReturnedError == ret.op \in FallibleOps /\ ret.code \notin {"OK", Escaped}

\* C1: whatever way a stars_run_full_pipeline call ends, no handle that its
\* stages created is still live afterwards.
C1_PipelineDestroysItsHandles ==
    ret.op = "stars_run_full_pipeline" => ret.live = {}

\* C2: a stars_context_create or stars_blocks_load_json call that returns an
\* error has freed every object it allocated.
C2_FailingCreateLeaksNothing ==
    (ret.op \in {"stars_context_create", "stars_blocks_load_json"} /\ ReturnedError)
        => ret.leaked = {}

\* C3: a call that did not return OK wrote nothing to its output parameter;
\* stars_run_scheduler with a null Context returns NULL_POINTER and writes
\* nothing.
C3_OutputWrittenOnlyOnOk ==
    /\ ret.op \in FallibleOps /\ ret.code # "OK" => ~ret.wrote /\ ret.val = NoVal
    /\ ret.op = "stars_run_scheduler" /\ "ctx" \in ret.nulls
           => ret.code = "NULL_POINTER" /\ ~ret.wrote

C3_Witness ==
    /\ ret.op = "stars_run_scheduler"
    /\ ret.nulls = {"ctx"}
    /\ ret.code = "NULL_POINTER"
    /\ ~ret.wrote

\* C4: a call with a null required pointer returns NULL_POINTER and has made
\* no collaborator call (no parse, file access or engine call; the instrument
\* check, INVALID_HANDLE, has not answered in its place); a null
\* possible_periods alone never makes stars_run_scheduler return
\* NULL_POINTER.
C4_NullCheckedFirst ==
    /\ ret.nulls # {} => ret.code = "NULL_POINTER" /\ ret.trace = <<>>
    /\ ret.op = "stars_run_scheduler" /\ ret.optNull /\ ret.nulls = {}
           => ret.code # "NULL_POINTER"

C4_Witness ==
    /\ variant = "crate"
    /\ ret.op = "stars_compute_possible_periods"
    /\ ret.nulls = {"out"}
    /\ ret.code = "NULL_POINTER"

\* C5: every call ends with a StarsResult; no exception leaves an exposed
\* operation.
C5_NoExceptionCrossesBoundary == ret.code # Escaped

\* C6 (as stated): destroying a handle twice never crashes the process and
\* never frees the object a second time.
C6_DoubleDestroyIsNoOp ==
    /\ ~crashed
    /\ \A i \in Slots :
         "freed2" \notin {ctx[i].st, blk[i].st, pp[i].st, sch[i].st}

\* The status of the object of family fam in slot i.
StatusOf(fam, i) ==
    CASE fam = "ctx" -> ctx[i].st
      [] fam = "blk" -> blk[i].st
      [] fam = "pp" -> pp[i].st
      [] fam = "sch" -> sch[i].st

\* C6 (amended): a destroy of a null handle changes nothing and a destroy of
\* a live handle frees its object once; the process crashes, or an object is
\* freed a second time, only in a step that destroys a handle which had
\* already been destroyed.
C6_OnlyStaleDestroyIsUndefined ==
    [][/\ \A fam \in Families, i \in Slots :
            StatusOf(fam, i) = "live" => StatusOf(fam, i)' \in {"live", "freed"}
       /\ (crashed' # crashed
           \/ \E fam \in Families, i \in Slots :
                 StatusOf(fam, i) # "freed2" /\ StatusOf(fam, i)' = "freed2")
          => \E fam \in Families, i \in Slots :
                 /\ StatusOf(fam, i) \in {"freed", "freed2"}
                 /\ StatusOf(fam, i)' = "freed2"]_vars

C6_Witness == crashed /\ \E i \in Slots : sch[i].st = "freed2"

\* C7: a step that destroys a BlockCollection or a Context leaves every live
\* PossiblePeriods and Schedule handle valid: what
\* stars_possible_periods_to_json, stars_schedule_to_json and
\* stars_schedule_get_stats write for it is what they wrote before, and is
\* read from live memory.
C7_DerivedHandlesIndependent ==
    [][(\E i \in Slots :
           \/ blk[i].st = "live" /\ blk'[i].st = "freed"
           \/ ctx[i].st = "live" /\ ctx'[i].st = "freed")
       => /\ \A s \in Slots : sch[s].st = "live" =>
                /\ sch'[s].st = "live"
                /\ ScheduleText(s)' = ScheduleText(s)
                /\ ScheduleText(s)' # Garbage
                /\ StatsText(s)' = StatsText(s)
          /\ \A p \in Slots : pp[p].st = "live" =>
                /\ pp'[p].st = "live"
                /\ PeriodsText(p)' = PeriodsText(p)]_vars

C7_Witness ==
    \E s \in Slots, p \in Slots :
        /\ sch[s].st = "live" /\ sch[s].total > 0
        /\ pp[p].st = "live"
        /\ blk[sch[s].ofBlk].st = "freed"
        /\ ctx[sch[s].ofCtx].st = "freed"

\* C8: no step changes the state of a Context or of a BlockCollection that
\* is live before and after it: compute, run and the exports only read them.
C8_ConsumersAreReadOnly ==
    [][\A i \in Slots :
          /\ ctx[i].st = "live" /\ ctx'[i].st = "live" => ctx'[i] = ctx[i]
          /\ blk[i].st = "live" /\ blk'[i].st = "live" => blk'[i] = blk[i]]_vars

C10_NullUnlessLastCallFailed ==
    /\ ret.op = "stars_clear_error" => stars_get_last_error(ret.t) = NullStr
    /\ ret.code = "OK" => stars_get_last_error(ret.t) = NullStr

\* C10 (amended): stars_get_last_error is NULL right after stars_clear_error
\* and, in the crate variant, right after any call that returned OK; in the
\* native variant a call that returns OK leaves the slot as it found it.
C10_NullAfterClearAndCrateSuccess ==
    /\ [](/\ ret.op = "stars_clear_error" => stars_get_last_error(ret.t) = NullStr
          /\ variant = "crate" /\ ret.code = "OK"
                => stars_get_last_error(ret.t) = NullStr)
    /\ [][variant = "native" /\ ret'.code = "OK" => lastError' = lastError]_vars

C10_Witness ==
    /\ variant = "native"
    /\ ret.code = "OK"
    /\ stars_get_last_error(ret.t) # NullStr

\* C11: the last-error slot is per thread. A call on one thread, failing or
\* not, and a stars_clear_error on one thread leave what stars_get_last_error
\* returns on every other thread unchanged; a failing call leaves its own
\* message in the slot of the thread it ran on, and stars_get_last_error
\* returns the calling thread's slot.
C11_LastErrorIsPerThread ==
    [][\A t \in Threads : \A u \in Threads \ {t} :
         ret'.t = t =>
           /\ stars_get_last_error(u)' = stars_get_last_error(u)
           /\ (ret'.op \in FallibleOps /\ ret'.code \notin {"OK", Escaped})
                 => stars_get_last_error(t)' = ret'.msg
           /\ ret'.op = "stars_get_last_error"
                 => ret'.msg = stars_get_last_error(t)]_vars

\* Both threads have failed, with different messages, and the second thread
\* has just read its own.
C11_Witness ==
    /\ ret.op = "stars_get_last_error"
    /\ ret.t = "t2"
    /\ ret.msg = lastError["t2"]
    /\ lastError["t1"] # ""
    /\ lastError["t2"] # ""
    /\ lastError["t1"] # lastError["t2"]

\* C12: concurrent consuming calls on the same handles are race-free. While
\* another thread is inside a consuming call on the same live Context and
\* BlockCollection, a consuming call writes nothing reachable through them:
\* it leaves the blocks and the instrument as they were.
C12_NoWriteWhileShared ==
    [][\A t \in Threads : \A u \in Threads \ {t} :
         (/\ running[t] \in ConsumingOps
          /\ running'[t] = "idle"
          /\ running[u] \in ConsumingOps)
         => (ctx' = ctx /\ blk' = blk)]_vars

\* The stages of a pipeline run that appear in trace tr.
RECURSIVE StagesIn(_)
StagesIn(tr) ==
    IF tr = <<>> THEN {}
    ELSE (IF Head(tr) \in FallibleOps THEN {Head(tr)} ELSE {}) \cup StagesIn(Tail(tr))

\* C13: stars_run_full_pipeline on a config with no instrument field fails
\* with INVALID_JSON or DESERIALIZATION, the failure comes from the
\* context-creation stage (no later stage runs), and no Context is left
\* allocated.
C13_PipelineRejectsMissingInstrument ==
    (/\ probe.op = "stars_run_full_pipeline"
     /\ probe.stage = "done"
     /\ probe.ch.cin.syntax = "ok"
     /\ probe.ch.cin.instrument = "absent")
    => /\ probe.o.code \in {"INVALID_JSON", "DESERIALIZATION"}
       /\ StagesIn(probe.o.trace) = {"stars_context_create"}
       /\ "ctx" \notin probe.o.leaked \cup probe.o.live

\* C14: stars_context_create fails and writes no handle when the config has
\* no executionPeriod section or the section lacks begin or end, and it
\* succeeds only when the instrument section and a complete executionPeriod
\* are both present.
C14_ContextNeedsInstrumentAndPeriod ==
    (probe.op = "stars_context_create" /\ probe.stage = "done")
    => /\ (probe.ch.cin.syntax = "ok" /\ probe.ch.cin.period \in {"absent", "partial"})
            => (probe.o.code # "OK" /\ ~probe.o.wrote)
       /\ probe.o.code = "OK"
            => (probe.ch.cin.instrument = "ok" /\ probe.ch.cin.period = "ok")

\* C15: stars_blocks_load_json succeeds only on a bare array and on an
\* object whose schedulingBlocks field is an array; on every other
\* well-formed value it returns INVALID_JSON and writes no handle.
C15_BlocksShapes ==
    (/\ probe.op = "stars_blocks_load_json"
     /\ probe.stage = "done"
     /\ probe.ch.bin.syntax = "ok"
     /\ ~(\/ probe.ch.bin.shape = "array"
          \/ probe.ch.bin.shape = "object" /\ probe.ch.bin.field = "array"))
    => (probe.o.code = "INVALID_JSON" /\ ~probe.o.wrote)

\* C16: stars_context_create and stars_blocks_load_json return INVALID_JSON
\* for text that is not syntactically valid JSON, and DESERIALIZATION for
\* valid JSON of an accepted shape whose instrument, period or block cannot
\* be decoded (the decoder raises).
C16_DecodeErrorsClassified ==
    /\ (probe.op = "stars_context_create" /\ probe.stage = "done")
         => /\ probe.ch.cin.syntax = "bad" => probe.o.code = "INVALID_JSON"
            /\ (\/ probe.ch.cin.instrument = "std"
                \/ probe.ch.cin.instrument = "ok" /\ probe.ch.cin.period = "std")
                 => probe.o.code = "DESERIALIZATION"
    /\ (probe.op = "stars_blocks_load_json" /\ probe.stage = "done")
         => /\ probe.ch.bin.syntax = "bad" => probe.o.code = "INVALID_JSON"
            /\ (/\ probe.ch.bin.field # "notarray"
                /\ FirstThrow(probe.ch.bin.elems) = "std")
                 => probe.o.code = "DESERIALIZATION"

\* The probes whose second call is a file-taking operation.
FileTaking == {"stars_context_create", "stars_blocks_load_json", "stars_run_full_pipeline"}

\* C17: a file-taking operation (stars_context_create_from_file,
\* stars_blocks_load_file, stars_run_pipeline_from_file) returns IO exactly
\* when the file cannot be opened or read; a readable file never yields IO,
\* whatever its content.
C17_IOOnlyForUnreadableFile ==
    (probe.op \in FileTaking /\ probe.stage = "done")
    => (probe.o2.code = "IO" <=> probe.file = "missing")

\* C18: for a readable file with content T, stars_run_pipeline_from_file
\* returns the same code, writes the same output (or none) and leaves the
\* same handles (none) as stars_run_full_pipeline on T.
C18_PipelineShapesEquivalent ==
    (probe.op = "stars_run_full_pipeline" /\ probe.stage = "done"
     /\ probe.file = "readable")
    => /\ probe.o2.code = probe.o.code
       /\ probe.o2.wrote = probe.o.wrote
       /\ probe.o2.val = probe.o.val
       /\ probe.o2.live = probe.o.live
       /\ probe.o2.leaked = probe.o.leaked

\* C19: for every Schedule that stars_run_scheduler built from a collection
\* of N blocks, the scheduled and unscheduled counts of stars_schedule_to_json
\* add up to N, and in stars_schedule_get_stats they add up to total_blocks,
\* which is N; also when the engine returned no schedule object.
C19_CountsAddUpToBlocks ==
    \A s \in Slots :
        sch[s].st = "live" =>
            LET j == ScheduleJson(variant, sch[s])
                st == ScheduleStats(variant, sch[s])
            IN  /\ j[2] + j[3] = sch[s].total
                /\ st[2] + st[3] = st[4]
                /\ st[4] = sch[s].total

\* A schedule of a non-empty collection for which the engine returned no
\* schedule object.
C19_Witness ==
    \E s \in Slots : sch[s].st = "live" /\ ~sch[s].has /\ sch[s].total = MaxElems

\* C20: when stars_blocks_load_json succeeds on a text, exporting the
\* collection with stars_blocks_to_json and loading the exported text
\* succeeds and gives a collection with the same stars_blocks_count.
C20_BlocksRoundTrip ==
    (probe.op = "stars_blocks_to_json" /\ probe.stage = "done" /\ probe.o.code = "OK")
    => (probe.o2.code = "OK" /\ probe.o2.val = probe.o.val)

\* C21: duration_days of stars_context_get_execution_period is the total
\* length end - begin of the execution period in days (here in units of
\* 1/86400 day), for periods under a minute as for periods of hours or days.
C21_DurationDaysIsTotalLength ==
    (probe.op = "stars_context_get_execution_period" /\ probe.stage = "done")
    => (probe.o.code = "OK" /\ probe.o.val[2] = TotalSeconds(probe.ch.dur))

\* C22: two runs of stars_run_scheduler with the Hybrid-Accumulative
\* algorithm and the same non-negative seed, on the same Context and
\* BlockCollection, give Schedules of the same fitness.
C22_HybridSeedDeterminesFitness ==
    (/\ probe.op = "stars_run_scheduler"
     /\ probe.stage = "done"
     /\ probe.ch.alg = STARS_SCHEDULER_HYBRID_ACCUMULATIVE
     /\ probe.ch.seed >= 0)
    => ((probe.o.code = "OK" /\ probe.o2.code = "OK") => probe.o.val[5] = probe.o2.val[5])

\* C23: the PossiblePeriods handle that stars_compute_possible_periods
\* returns owns the computed map, so that stars_possible_periods_to_json on
\* it writes one entry per block of the collection the map was computed for.
C23_PeriodsHandleOwnsMap ==
    [][\A p \in Slots : \A b \in Slots :
         (pp[p].st # "live" /\ pp'[p].st = "live" /\ blk[b].st = "live")
         => PeriodsText(p)' = <<"periods", blk[b].n, 0, 0, 0>>]_vars

\* The elements of an array that carry the name of a block type as a key.
RECURSIVE Recognized(_)
Recognized(elems) ==
    IF elems = <<>> THEN 0
    ELSE (IF Head(elems) \in {"task", "twokeys"} THEN 1 ELSE 0) + Recognized(Tail(elems))

\* C24: stars_blocks_load_json on an array whose elements carry a recognized
\* or an unrecognized discriminator succeeds, and the collection holds one
\* block per element with a recognized discriminator: elements with an
\* unrecognized one are skipped and never fail the load.
C24_UnrecognizedElementsSkipped ==
    (/\ probe.op = "stars_blocks_to_json"
     /\ probe.stage = "done"
     /\ probe.ch.bin.syntax = "ok"
     /\ probe.ch.bin.shape = "array"
     /\ \A k \in 1..Len(probe.ch.bin.elems) :
           probe.ch.bin.elems[k] \in {"task", "unknown", "twokeys", "lookalike"})
    => /\ probe.o.code = "OK"
       /\ probe.o.val = <<"count", Recognized(probe.ch.bin.elems), 0, 0, 0>>

\* C25: for every Schedule, stars_schedule_get_stats reports
\* 0 <= scheduled_count <= total_blocks (the unsigned subtraction does not
\* wrap) and a scheduling_rate between 0 and 1, which is 0 when
\* total_blocks is 0.
C25_StatsWithinRange ==
    \A s \in Slots :
        sch[s].st = "live" =>
            LET st == ScheduleStats(variant, sch[s])
                rate == SchedulingRate(variant, sch[s])
            IN  /\ 0 <= st[2] /\ st[2] <= st[4]
                /\ 0 <= rate /\ rate <= 100
                /\ st[4] = 0 => rate = 0
                /\ (st[4] > 0 /\ st[2] = st[4]) => rate = 100

\* A schedule of a non-empty collection with every block unscheduled: the
\* subtraction yields 0.
C25_Witness ==
    \E s \in Slots :
        /\ sch[s].st = "live"
        /\ sch[s].total > 0
        /\ sch[s].unsched = sch[s].total
        /\ ScheduleStats(variant, sch[s])[2] = 0

ExportOps ==
    {"stars_context_get_execution_period", "stars_blocks_to_json", "stars_blocks_count",
     "stars_blocks_get_at", "stars_possible_periods_to_json", "stars_schedule_to_json",
     "stars_schedule_get_stats"}

\* C27: a successful export changes nothing but its output parameter: every
\* handle's object and what stars_get_last_error returns on the calling
\* thread are the same after the call as before it.
C27_ExportHasNoSideEffect ==
    [][\A t \in Threads :
         (ret'.op \in ExportOps /\ ret'.t = t /\ ret'.code = "OK")
         => /\ stars_get_last_error(t)' = stars_get_last_error(t)
            /\ heap' = heap]_vars

\* C28: a destroy operation called with a null handle is a no-op: no handle
\* of any family changes state, the last-error slot of every thread is as it
\* was, and nothing is raised (the process goes on as before).
DestroyOps ==
    {"stars_context_destroy", "stars_blocks_destroy",
     "stars_possible_periods_destroy", "stars_schedule_destroy"}

C28_NullDestroyIsNoOp ==
    [][(ret' # ret /\ ret'.op \in DestroyOps /\ "handle" \in ret'.nulls)
       => /\ UNCHANGED <<ctx, blk, pp, sch>>
          /\ lastError' = lastError
          /\ crashed' = crashed
          /\ ret'.code = "VOID"]_vars

C28_Witness ==
    /\ ret.op = "stars_blocks_destroy"
    /\ "handle" \in ret.nulls
    /\ ctx[1].st = "live"
    /\ lastError["t1"] # ""
    /\ ~crashed

\* C29: stars_run_full_pipeline runs the stages stars_context_create,
\* stars_blocks_load_json, stars_compute_possible_periods, stars_run_scheduler
\* and stars_schedule_to_json in that order, stops at the first stage that
\* does not return STARS_OK, and returns that stage's result: it returns
\* STARS_OK only after all five, and when the first two stages succeed and
\* the computation of the possible periods fails, it returns what
\* stars_compute_possible_periods returns, after three stages.
PipelineStages ==
    <<"stars_context_create", "stars_blocks_load_json", "stars_compute_possible_periods",
      "stars_run_scheduler", "stars_schedule_to_json">>

IsStage(x) == x \in FallibleOps

C29_PipelineStagesInOrder ==
    (probe.op = "stars_run_full_pipeline" /\ probe.stage = "done")
    => LET st == SelectSeq(probe.o.trace, IsStage)
           r1 == stars_context_create(variant, AtEntry, FALSE, FALSE, probe.ch.cin)
           r2 == stars_blocks_load_json(variant, r1.err, FALSE, FALSE, probe.ch.bin)
           r3 == stars_compute_possible_periods(variant, r2.err, FALSE, FALSE, FALSE,
                                                ContextBuilt(variant, probe.ch.cin).instr,
                                                probe.ch.x1)
       IN  /\ Len(st) <= Len(PipelineStages)
           /\ st = SubSeq(PipelineStages, 1, Len(st))
           /\ probe.o.code = "OK" => Len(st) = Len(PipelineStages)
           /\ (r1.code = "OK" /\ r2.code = "OK" /\ r3.code # "OK")
                => (Len(st) = 3 /\ probe.o.code = r3.code /\ probe.o.msg = r3.msg)

\* C30: a stars_run_scheduler call whose possible_periods argument is null
\* calls ComputePeriods once, before the engine's Schedule; a call that is
\* given a PossiblePeriods handle does not call ComputePeriods; and a call in
\* which ComputePeriods fails (the engine is never reached) returns
\* SCHEDULING_FAILED and writes no Schedule handle.
Engines == {"Accumulative.Schedule", "Hybrid.Schedule"}

IsComputePeriods(x) == x = "ComputePeriods"

IsEngine(x) == x \in Engines

C30_PeriodsComputedOnceWhenOmitted ==
    ret.op = "stars_run_scheduler"
    => LET k == Len(SelectSeq(ret.trace, IsComputePeriods))
           engines == Len(SelectSeq(ret.trace, IsEngine))
       IN  /\ ~ret.optNull => k = 0
           /\ (ret.optNull /\ engines > 0)
                => (k = 1 /\ engines = 1 /\ Head(ret.trace) = "ComputePeriods")
           /\ (k > 0 /\ engines = 0)
                => (ret.code = "SCHEDULING_FAILED" /\ ~ret.wrote)

\* C31: in the native variant, whenever stars_run_scheduler has run the
\* engine on a collection, ComputePeriods had completed on that collection
\* with the context, in an earlier stars_compute_possible_periods or inside
\* the call; also when the PossiblePeriods handle passed was computed from
\* another collection.
C31_EngineOnlyOnPreparedBlocks ==
    (variant = "native" /\ probe.op = "pairs" /\ probe.ranOn # 0) => probe.ranPrepared

\* C32: stars_run_scheduler with params.algorithm = 0 runs the Accumulative
\* engine and no other, with 1 the Hybrid-Accumulative engine and no other,
\* and with any other value it runs no engine, returns SCHEDULING_FAILED and
\* writes no Schedule handle.
C32_AlgorithmSelectsEngine ==
    (probe.op = "stars_run_scheduler" /\ probe.stage = "done")
    => LET r == stars_run_scheduler(variant, AtEntry, FALSE, FALSE, FALSE, TRUE, TRUE,
                                    FALSE, probe.ch.alg, "none", "none")
           engines == SelectSeq(r.trace, IsEngine)
       IN  /\ probe.ch.alg = STARS_SCHEDULER_ACCUMULATIVE
                => engines = <<"Accumulative.Schedule">>
           /\ probe.ch.alg = STARS_SCHEDULER_HYBRID_ACCUMULATIVE
                => engines = <<"Hybrid.Schedule">>
           /\ probe.ch.alg \notin {STARS_SCHEDULER_ACCUMULATIVE,
                                   STARS_SCHEDULER_HYBRID_ACCUMULATIVE}
                => /\ engines = <<>>
                   /\ probe.o.code = "SCHEDULING_FAILED"
                   /\ ~probe.o.wrote

\* C33: for both algorithms, a stars_run_scheduler call that runs an engine
\* hands it a non-zero max_iterations as its iteration count and leaves the
\* count to a default (the engine's own, or the wrapper's 50) when
\* max_iterations is 0; it hands a seed >= 0 on as the engine's seed and a
\* negative seed as no seed.
C33_KnobsForwarded ==
    (/\ probe.op = "stars_run_scheduler"
     /\ probe.stage = "done"
     /\ probe.ch.alg \in {STARS_SCHEDULER_ACCUMULATIVE, STARS_SCHEDULER_HYBRID_ACCUMULATIVE}
     /\ probe.o.code = "OK")
    => /\ probe.ch.iters # 0 => probe.cfg.iterations = probe.ch.iters
       /\ probe.ch.iters = 0 => probe.cfg.iterations \in {0, 50}
       /\ probe.ch.seed >= 0 => probe.cfg.seed = probe.ch.seed
       /\ probe.ch.seed < 0 => probe.cfg.seed = NoSeed

\* C34: a stars_run_scheduler call that runs an engine hands a non-zero
\* time_limit_seconds to the engine's configuration, and configures the
\* engine as unlimited only when time_limit_seconds is 0.
C34_TimeLimitForwarded ==
    (/\ probe.op = "stars_run_scheduler"
     /\ probe.stage = "done"
     /\ probe.o.code = "OK")
    => /\ probe.ch.limit # 0 => probe.cfg.limit = probe.ch.limit
       /\ probe.cfg.limit = 0 => probe.ch.limit = 0

\* C35: after a successful stars_run_scheduler for which the engine returned
\* a schedule, the fitness written by stars_schedule_get_stats and by
\* stars_schedule_to_json for the Schedule is the fitness the engine
\* reported for that schedule.
C35_FitnessIsEngineFitness ==
    (/\ probe.op = "stars_run_scheduler"
     /\ probe.stage = "done"
     /\ probe.o.code = "OK"
     /\ probe.ch.eng.has)
    => /\ probe.o.val[5] = probe.ch.eng.fit
       /\ ScheduleJson(variant,
                       ScheduleBuilt(variant, 1, 1, probe.ch.n, probe.ch.eng))[4]
            = probe.ch.eng.fit

\* C36: on a Context without a resolved instrument (and the other
\* arguments given), stars_compute_possible_periods and stars_run_scheduler
\* return INVALID_HANDLE, call neither ComputePeriods nor an engine and write
\* no handle; on a Context with an instrument, every failure of
\* ComputePeriods inside stars_compute_possible_periods is returned as
\* PRESCHEDULER_FAILED.
C36_InstrumentRequired ==
    (probe.op = "stars_compute_possible_periods" /\ probe.stage = "done")
    => /\ ~probe.ch.instr
            => /\ probe.o.code = "INVALID_HANDLE" /\ probe.o2.code = "INVALID_HANDLE"
               /\ probe.o.trace = <<>> /\ probe.o2.trace = <<>>
               /\ ~probe.o.wrote /\ ~probe.o2.wrote
       /\ (probe.ch.instr /\ probe.ch.x1 # "none")
            => (probe.o.code = "PRESCHEDULER_FAILED" /\ ~probe.o.wrote)

\* C37: in the native variant, a collection that stars_blocks_load_json
\* loaded from an array holds (stars_blocks_count) at most as many blocks as
\* the array has elements, and at most as many as it has elements whose key
\* is the name of a block type.
C37_AtMostOneBlockPerElement ==
    (/\ variant = "native"
     /\ probe.op = "stars_blocks_to_json"
     /\ probe.stage = "done"
     /\ probe.ch.bin.shape = "array"
     /\ probe.o.code = "OK")
    => /\ probe.o.val[2] <= Len(probe.ch.bin.elems)
       /\ probe.o.val[2] <= Recognized(probe.ch.bin.elems)

\* C38: for every Schedule, stars_schedule_get_stats and
\* stars_schedule_to_json write the same scheduled_count, the same
\* unscheduled_count and the same fitness, and the scheduled_count is the
\* number of units of the schedule object (0 when there is none).
C38_ExportsAgree ==
    \A s \in Slots :
        sch[s].st = "live" =>
            LET j == ScheduleJson(variant, sch[s])
                st == ScheduleStats(variant, sch[s])
            IN  /\ st[2] = j[2]
                /\ st[3] = j[3]
                /\ st[5] = j[4]
                /\ j[2] = (IF sch[s].has THEN sch[s].units ELSE 0)

\* A schedule in which the engine placed every block of a non-empty
\* collection.
C38_Witness ==
    \E s \in Slots :
        /\ sch[s].st = "live"
        /\ sch[s].has
        /\ sch[s].units = MaxElems
        /\ sch[s].total = MaxElems

====
